---- MODULE Spec2Model ----
(***************************************************************************)
(* Model of datahog's cross-shard coordinator (datahog/db/txn.py):         *)
(*   - TwoPhaseCommit, Timer and the two-shard operation plans             *)
(*     (specifications Spec and SpecNoFault);                              *)
(*   - remove_node and its estate map over the rows of every shard         *)
(*     (specifications SpecEstate and SpecEstateFair);                     *)
(*   - set_alias and remove_alias running beside remove_node               *)
(*     (specifications SpecAlias, SpecSetAlias and SpecTwoAlias);          *)
(*   - the relationship operations, move_node, the context registry,       *)
(*     search_names, the flag and storage codecs, set_property and the     *)
(*     lookups of a PHONETIC name (SpecApi, SpecRel, SpecMove, SpecReg,    *)
(*     SpecSearch, SpecCodec, SpecProp, SpecPhon).                         *)
(* The connection pool and the SQL layer (pool.py, query.py) are           *)
(* collaborators of txn.py; they are modelled by their contract.           *)
(***************************************************************************)
EXTENDS Integers, Sequences, FiniteSets, TLC

VARIABLES
    plan,        \* the plan being run, "none" when idle
    timed,       \* timeout is not None: the plan runs inside `with timer`
    fshard,      \* shard the TwoPhaseCommit handle is pinned to
    mshard,      \* home shard of the mirror write
    pc,          \* position of the plan
    conn,        \* the plan's local variable `conn`
    tpc,         \* TwoPhaseCommit fields _conn and _failed
    xact,        \* server-side state of the first shard's transaction
    mirror,      \* server-side state of the mirror shard's transaction
    mchanged,    \* the mirror statement changed a row
    pool,        \* pool._conns[shard]: number of connections in the pool
    timerConn,   \* Timer.conn
    timerState,  \* "off", "armed", "fired" or "done"
    inflight,    \* connection on which a statement is running
    canceled,    \* the running statement was cancelled by Timer.ding
    exc,         \* the exception propagating, "none" if none
    ret,         \* the value being returned, "none" if none
    faults,      \* driver failures the environment may still inject
    rbFailed,    \* a rollback of the prepared transaction failed
    flags,       \* the flag plans' data: the two rows, add/clear, results
    ops,         \* operations completed so far
    cfg,         \* the deployment: shard of every id, lookup read lists
    live,        \* the committed, not tombstoned rows of every shard
    live0,       \* the rows that were live when remove_node was called
    epc,         \* position of remove_node
    tpcs,        \* remove_node's list `tpcs`, with each handle's row changes
    estate,      \* remove_node's dict `estates`, in insertion order
    ids,         \* _remove_local_estates' local `ids`
    eres,        \* what remove_node returned or raised
    client,      \* the set_alias or remove_alias call running beside remove_node
    hist,        \* what happened to the plan's statements: for the properties
    api,         \* the call of the relationship API that is running
    relop,       \* a relationship plan over the relationship rows it addresses
    mv,          \* a move_node call over the two parents' ordered edge lists
    reg,         \* the context registry and the set_context call running on it
    srch,        \* a search_names call over the lookup rows it reads
    codec,       \* a call of the flag codec or of the storage functions
    prop,        \* a set_property call over the property rows of a shard
    phon         \* a PHONETIC name, its lookup rows and the call running on them

vars == <<plan, timed, fshard, mshard, pc, conn, tpc, xact, mirror, mchanged, pool,
          timerConn, timerState, inflight, canceled, exc, ret, faults,
          rbFailed, flags, ops,
          cfg, live, live0, epc, tpcs, estate, ids, eres, client, hist, api,
          relop, mv, reg, srch, codec, prop, phon>>

\* the variables of the two-shard plans, and those of remove_node
planVars == <<plan, timed, fshard, mshard, pc, conn, tpc, xact, mirror, mchanged,
              pool, timerConn, timerState, inflight, canceled, exc, ret,
              rbFailed, flags, ops, hist>>
dataVars == <<cfg, live, live0, epc, tpcs, estate, ids, eres, client>>
\* the variables of the API layer above the plans
sideVars == <<api, relop, mv, reg, srch, codec, prop, phon>>
\* what the steps of each of these leave alone
apiRest == <<planVars, dataVars, faults, relop, mv, reg, srch, codec, prop, phon>>
relRest == <<planVars, dataVars, faults, api, mv, reg, srch, codec, prop, phon>>
mvRest == <<planVars, dataVars, faults, api, relop, reg, srch, codec, prop, phon>>

(***************************************************************************)
(* Bounds                                                                  *)
(***************************************************************************)
NumShards == 2
PoolSize == 2
MaxOps == 2
MaxFaults == 1
MaxFlag == 1
MaxNodes == 3
MaxEdges == 2
MaxKids == 2
MaxCtx == 2
MaxId == 2
MaxProbe == 2
MaxLimit == 2
MaxBit == 3
MaxList == 2
MaxVal == 1

Shards == 1..NumShards

\* values of a variable that holds a connection (a connection is named by
\* its shard): None, and a local name that was never assigned
None == 0
Unbound == 0 - 1

(***************************************************************************)
(* The two-shard plans and the features of their code                      *)
(***************************************************************************)
\* a first block without its except clause
FirstIntegrityRaises(p) == {[ret |-> "none", exc |-> "IntegrityError"]}

\* `except psycopg2.IntegrityError` around the first block
FirstIntegrity(p) ==
    CASE p = "set_alias" -> {[ret |-> "False", exc |-> "none"],
                             [ret |-> "none", exc |-> "AliasInUse"]}
      [] p \in {"create_relationship_pair", "create_name"}
            -> {[ret |-> "False", exc |-> "none"]}
      [] OTHER -> {[ret |-> "none", exc |-> "IntegrityError"]}

(***************************************************************************)
(* Flag plans: the row on the first shard and its mirror row               *)
(***************************************************************************)
FlagPlans == {"set_alias_flags", "set_relationship_flags", "set_name_flags"}

NoRow == [exists |-> FALSE, flags |-> {}]
\* no phonetic lookup row; the null _find_phonetic_lookup_shards returns
NoLookup == [shard |-> None, flags |-> {}]
NotLocated == [ok |-> FALSE, dm |-> None, dma |-> None]
\* query.set_flags: flags = (flags | add) & ~clear on the live row matching
\* the where clause, returning the new bitmap, or nothing without such a row
SetFlags(row, add, clear) ==
    [found |-> row.exists, flags |-> (row.flags \cup add) \ clear]

\* the mirror block's test `not result or result[0] != result_flags`
MirrorVerdictNoCompare(found, got, expected) ==
    IF ~found THEN "falsy" ELSE "ok"

MirrorVerdict(found, got, expected) ==
    IF ~found THEN "falsy"
    ELSE IF got # expected THEN "differs" ELSE "ok"

FlagsIdle ==
    [f0 |-> NoRow, m0 |-> NoRow, frow |-> NoRow, mrow |-> NoRow,
     fpend |-> {}, mpend |-> {}, add |-> {}, clear |-> {}, res |-> {},
     mout |-> "none"]

(***************************************************************************)
(* TwoPhaseCommit                                                          *)
(***************************************************************************)
\* __exit__: roll back if fail() was called or the block raised, else prepare
ExitDecisionSkip(failed, raised) ==
    IF failed \/ raised THEN "rollback" ELSE "skip"

ExitDecision(failed, raised) ==
    IF failed \/ raised THEN "rollback" ELSE "prepare"

\* elsewhere(): after the enclosed block
ElsewhereDecisionNoRollback(failed, raised) ==
    IF raised THEN "reraise"
    ELSE IF failed THEN "rollback" ELSE "commit"

ElsewhereDecision(failed, raised) ==
    IF raised THEN "rollback_reraise"
    ELSE IF failed THEN "rollback" ELSE "commit"

(***************************************************************************)
(* Connection pool (contract of pool.get_by_shard / get_by_id / put)       *)
(***************************************************************************)
PoolGet(p, s) == [p EXCEPT ![s] = @ - 1]
PoolPut(p, s) == [p EXCEPT ![s] = @ + 1]

\* outcomes of a driver call: it may fail while the environment has faults left
CallOutcomes == IF faults > 0 THEN {"ok", "error"} ELSE {"ok"}
Spend(o) == IF o = "error" THEN faults - 1 ELSE faults

(***************************************************************************)
(* remove_node: rows, shards and the estate map                            *)
(***************************************************************************)
\* node 0 is remove_node's base_id (the parent), node 1 its id
Nodes == 0..MaxNodes
Estate == 1..MaxNodes

\* a row of any table; unused columns hold "none" or 0
Row(k, s, b, c, v, o) == [k |-> k, s |-> s, b |-> b, c |-> c, v |-> v, o |-> o]

NodeRow(cf, n) == Row("node", cf.shardOf[n], n, "none", 0, 0)
PropRow(cf, n) == Row("prop", cf.shardOf[n], n, "none", 0, 0)
EdgeRow(cf, p, ch) == Row("edge", cf.shardOf[p], p, "none", 0, ch)
AliasRow(cf, n) == Row("alias", cf.shardOf[n], n, "alias", 1, 0)
AliasLookupRow(s, n) == Row("alias_lookup", s, n, "alias", 1, 0)
\* v = 1 is forward = True: the forward row lives with base_id (b), the
\* reverse row with rel_id (o)
RelRow(s, b, r, fwd) == Row("rel", s, b, "rel", fwd, r)

\* pool.shards_for_lookup_hash / shards_for_lookup_prefix: the read list of
\* a lookup key, a non-empty list of distinct shards, write shard first
ReadLists ==
    {q \in UNION {[1..n -> Shards] : n \in 1..NumShards} :
        \A i \in DOMAIN q, j \in DOMAIN q : i # j => q[i] # q[j]}

Range(q) == {q[i] : i \in DOMAIN q}

\* a deployment without lookups of interest
PlainCfg(sh) ==
    [shardOf |-> sh, aliasRead |-> <<1>>, prefixRead |-> <<1>>]

\* the rows every scenario has: the nodes with a property each
BaseRows(cf) == {NodeRow(cf, n) : n \in Nodes} \cup {PropRow(cf, n) : n \in Nodes}

GraphScenarios ==
    LET EdgeRows(cf, E) == {EdgeRow(cf, e[1], e[2]) : e \in E}
    IN
    LET \* the graphs: up to MaxEdges edges among the estate's nodes, and the
        \* parent's edge to node 1 (absent: remove_node returns False)
        EdgeSets ==
            {E \in SUBSET {e \in Estate \X Estate : e[1] # e[2]} : Cardinality(E) <= MaxEdges}
    IN
    {[cfg |-> PlainCfg(sh),
      rows |-> BaseRows(PlainCfg(sh)) \cup EdgeRows(PlainCfg(sh), E)
                 \cup (IF par THEN {EdgeRow(PlainCfg(sh), 0, 1)} ELSE {})] :
        sh \in [Nodes -> Shards], E \in EdgeSets, par \in BOOLEAN}

\* the rows of the chain 0 -> 1 -> 2, to which the scenarios below add one
\* alias, one name or one relationship
ChainRows(cf) ==
    BaseRows(cf) \cup {EdgeRow(cf, 0, 1), EdgeRow(cf, 1, 2)}

Owners == {1, 2}

\* an alias of node 1 or 2; its lookup row is on one shard of the read list
AliasScenarios ==
    UNION {{[cfg |-> [PlainCfg(sh) EXCEPT !.aliasRead = ar],
             rows |-> ChainRows(PlainCfg(sh))
                        \cup {AliasRow(PlainCfg(sh), n), AliasLookupRow(ar[i], n)}] :
                i \in DOMAIN ar} :
           sh \in [Nodes -> Shards], ar \in ReadLists, n \in Owners}

\* no alias yet
NoAliasScenarios ==
    {[cfg |-> [PlainCfg(sh) EXCEPT !.aliasRead = ar], rows |-> ChainRows(PlainCfg(sh))] :
        sh \in [Nodes -> Shards], ar \in ReadLists}

\* a relationship of an undirected context: both rows are forward rows,
\* each on the shard of its own base_id
UndirectedRow(s, b, r) == Row("rel", s, b, "undirected", 1, r)

\* estates[s]: (alias_lookups, name_lookups, rels, ids)
EstateEntry(s, idset) == [shard |-> s, al |-> {}, nl |-> {}, rels |-> {}, ids |-> idset]

EstateKeys(est) == {est[i].shard : i \in DOMAIN est}

\* estate.setdefault(s, (set(), set(), [], []))[f] gets x added
EstateAdd(est, a) ==
    LET e1 == IF a.s \in EstateKeys(est) THEN est
              ELSE Append(est, EstateEntry(a.s, {}))
    IN [i \in DOMAIN e1 |->
            IF e1[i].shard = a.s THEN [e1[i] EXCEPT ![a.f] = @ \cup {a.x}]
            ELSE e1[i]]

RECURSIVE EstateAddAll(_, _)
EstateAddAll(est, adds) ==
    IF adds = <<>> THEN est
    ELSE EstateAddAll(EstateAdd(est, Head(adds)), Tail(adds))

\* the rows a statement returned, as the list the code walks
RECURSIVE Listed(_)
Listed(S) ==
    IF S = {} THEN <<>>
    ELSE LET x == CHOOSE y \in S : TRUE IN <<x>> \o Listed(S \ {x})

RECURSIVE Flatten(_)
Flatten(qq) == IF qq = <<>> THEN <<>> ELSE Head(qq) \o Flatten(Tail(qq))

\* the callers of the alias operations
Clients == {1, 2}

\* remove_node is not running
DataIdle ==
    LET \* no alias operation is running; state is that of its prepared transaction
        ClientIdle ==
            [pc |-> "idle", op |-> "none", node |-> 0, shard |-> None, state |-> "none",
             ins |-> {}, rem |-> {}, ret |-> "none", exc |-> "none"]
    IN
    /\ cfg = PlainCfg([n \in Nodes |-> 1])
    /\ live = {}
    /\ live0 = {}
    /\ epc = "idle"
    /\ tpcs = <<>>
    /\ estate = <<>>
    /\ ids = {}
    /\ eres = [ret |-> "none", exc |-> "none"]
    /\ client = [c \in Clients |-> ClientIdle]

(***************************************************************************)
(* The relationship API (datahog/api/relationship.py)                      *)
(***************************************************************************)
\* the index argument None
NoIndex == 0 - 1

\* a base_ctx or rel_ctx key that meta does not have
Absent == [kind |-> "absent", s |-> {}]

\* a Python value: its type, its content, how the content is encoded, and
\* the type of what is encoded
Val(type, v, enc, of) == [type |-> type, v |-> v, enc |-> enc, of |-> of]
PyNone == Val("None", 0, "raw", "None")

\* no codec call has run
CodecIdle ==
    [pc |-> "idle", op |-> "none", ctxOk |-> TRUE, meta |-> {}, list |-> <<>>,
     num |-> 0, flags |-> {}, st |-> "none", schema |-> FALSE, value |-> PyNone,
     wrapped |-> PyNone, back |-> PyNone, exc |-> "none"]

\* no call is running, no relationship is stored, META is empty and no
\* search has run
SideIdle ==
    /\ api = [pc |-> "idle", i |-> 1, op |-> "none", readonly |-> FALSE,
              ctx |-> "unregistered", flagsOk |-> TRUE, exc |-> "none",
              dbWork |-> FALSE, calls |-> 0]
    /\ relop = [pc |-> "setup", op |-> "none", directed |-> TRUE, sh |-> <<1, 1>>,
                b |-> 1, r |-> 2, fwd |-> TRUE, rows |-> {}, rows0 |-> {},
                pend1 |-> {}, pend2 |-> {}, second |-> {}, touched |-> {},
                failed |-> FALSE, ret |-> "none", calls |-> 0, created |-> FALSE]
    /\ mv = [pc |-> "idle", same |-> TRUE, idx |-> NoIndex, parent |-> TRUE,
             src |-> <<>>, dst |-> <<>>, src0 |-> <<>>, dst0 |-> <<>>,
             psrc |-> <<>>, pdst |-> <<>>, xact |-> "none", ret |-> "none",
             exc |-> "none"]
    /\ reg = [pc |-> "idle", value |-> 1, tbl |-> "node", base |-> Absent,
              rel |-> Absent, extra |-> "none", exc |-> "none", calls |-> 0,
              META |-> [v \in 1..MaxCtx |->
                          [tbl |-> "none", base |-> Absent, rel |-> Absent]],
              before |-> [v \in 1..MaxCtx |->
                            [tbl |-> "none", base |-> Absent, rel |-> Absent]]]
    /\ srch = [pc |-> "idle", sclass |-> "prefix", shards |-> 1, limit |-> 1,
               loose |-> FALSE, alt |-> FALSE, fetched |-> <<>>, results |-> <<>>,
               token |-> [c \in {"dm", "dmalt"} |-> 0], last |-> 0, exc |-> "none"]
    /\ codec = CodecIdle
    /\ prop = [calls |-> 0, rows |-> {}, base |-> 1, value |-> 0, raced |-> FALSE,
               gone |-> FALSE, log |-> <<>>, exc |-> "none",
               ret |-> [inserted |-> FALSE, updated |-> FALSE]]
    /\ phon = [calls |-> 0, op |-> "none", loose |-> FALSE, alt |-> FALSE,
               had |-> FALSE, name |-> NoRow, dm |-> NoLookup, dma |-> NoLookup,
               found |-> NotLocated, add |-> {}, clear |-> {}, res |-> {},
               ret |-> "none", exc |-> "none"]

\* the order in which an entry point runs its steps
ApiStepsValidateFirst(op) == <<"validate", "fence", "txn">>

ApiSteps(op) == <<"fence", "validate", "txn">>

ApiAt(step) == api.pc = "run" /\ ApiSteps(api.op)[api.i] = step

ApiRaise(e) == [api EXCEPT !.pc = "done", !.exc = e]

ApiGoOn == [api EXCEPT !.i = @ + 1]

(***************************************************************************)
(* Initial state                                                           *)
(***************************************************************************)
\* no statement was cancelled and the mirror statement raised nothing
HistIdle ==
    [canceledStmt |-> FALSE, mirrorErr |-> "none", first |-> "none", second |-> "none"]

Idle ==
    /\ plan = "none"
    /\ timed = FALSE
    /\ fshard = 1
    /\ mshard = 1
    /\ pc = "idle"
    /\ conn = Unbound
    /\ tpc = [conn |-> None, failed |-> FALSE]
    /\ xact = "none"
    /\ mirror = "none"
    /\ mchanged = FALSE
    /\ timerConn = None
    /\ timerState = "off"
    /\ inflight = None
    /\ canceled = FALSE
    /\ exc = "none"
    /\ ret = "none"
    /\ rbFailed = FALSE
    /\ flags = FlagsIdle
    /\ hist = HistIdle

Init ==
    /\ Idle
    /\ DataIdle
    /\ SideIdle
    /\ pool = [s \in Shards |-> PoolSize]
    /\ faults \in 0..MaxFaults
    /\ ops = 0

InitNoFault ==
    /\ Idle
    /\ DataIdle
    /\ SideIdle
    /\ pool = [s \in Shards |-> PoolSize]
    /\ faults = 0
    /\ ops = 0

(***************************************************************************)
(* The plan, step by step                                                  *)
(***************************************************************************)
\* the public entry point: build the Timer and the TwoPhaseCommit handle
Start ==
    LET FlagsStart(f, m, a, c) ==
            [f0 |-> f, m0 |-> m, frow |-> f, mrow |-> m,
             fpend |-> {}, mpend |-> {}, add |-> a, clear |-> c, res |-> {},
             mout |-> "none"]
    IN
    LET \* a bitmap is the set of its set bits (flag i is bit i-1)
        FlagSet == 1..MaxFlag
    IN
    LET RowStates == {NoRow} \cup {[exists |-> TRUE, flags |-> F] : F \in SUBSET FlagSet}
    IN
    LET \* value of the local `conn` when `with tpc as conn` is reached:
        \* "None" (assigned None), a connection of the lookup shard that the probe
        \* loop already returned to the pool, or "unbound"
        ConnInit(p, first) ==
            IF p \in {"set_alias", "create_relationship_pair", "create_name",
                      "remove_phonetic_lookups_both",
                      "apply_flags_to_phonetic_lookups_both"}
            THEN None
            ELSE IF p \in {"set_alias_flags", "remove_alias"} THEN first
            ELSE Unbound
    IN
    LET Plans == {"set_alias", "set_alias_flags", "remove_alias",
                  "create_relationship_pair", "update_relationship",
                  "set_relationship_flags", "remove_relationship_pair",
                  "move_node", "create_name", "set_name_flags", "remove_name",
                  \* the nested plans of remove_name and set_name_flags under a
                  \* PHONETIC context with both lookups
                  "remove_phonetic_lookups_both",
                  "apply_flags_to_phonetic_lookups_both",
                  \* one statement on one shard, without a TwoPhaseCommit
                  "reorder_name"}
    IN
    /\ pc = "idle"
    /\ ops < MaxOps
    /\ \E p \in Plans, t \in BOOLEAN, f \in Shards, m \in Shards :
        /\ plan' = p
        /\ timed' = t
        /\ fshard' = f
        /\ mshard' = m
        /\ conn' = ConnInit(p, f)
        /\ timerState' = IF t THEN "armed" ELSE "off"
        /\ IF p \in FlagPlans
           THEN \E fr \in RowStates, mr \in RowStates,
                   a \in SUBSET FlagSet, c \in SUBSET FlagSet :
                    flags' = FlagsStart(fr, mr, a, c)
           ELSE flags' = FlagsIdle
    /\ pc' = "enter"
    /\ tpc' = [conn |-> None, failed |-> FALSE]
    /\ xact' = "none"
    /\ mirror' = "none"
    /\ mchanged' = FALSE
    /\ timerConn' = None
    /\ inflight' = None
    /\ canceled' = FALSE
    /\ exc' = "none"
    /\ ret' = "none"
    /\ rbFailed' = FALSE
    /\ UNCHANGED <<pool, faults, ops>>
    /\ hist' = HistIdle
    /\ UNCHANGED <<dataVars, sideVars>>

\* TwoPhaseCommit.__enter__: borrow the connection, tpc_begin
Enter ==
    /\ pc = "enter"
    /\ pool[fshard] > 0
    /\ pool' = PoolGet(pool, fshard)
    /\ \E o \in CallOutcomes :
        /\ faults' = Spend(o)
        /\ IF plan = "reorder_name"
           THEN \* conn = pool.get_by_id(base_id, replace=False): no handle,
                \* and timer.conn is not set
                /\ o = "ok"
                /\ conn' = fshard
                /\ pc' = "stmt1"
                /\ UNCHANGED <<tpc, xact, timerConn, exc>>
           ELSE IF o = "ok"
           THEN /\ tpc' = [tpc EXCEPT !.conn = fshard]
                /\ xact' = "open"
                /\ conn' = fshard
                /\ timerConn' = fshard
                /\ pc' = "stmt1"
                /\ exc' = exc
           ELSE /\ tpc' = [tpc EXCEPT !.conn = fshard]
                /\ exc' = "DBError"
                /\ pc' = "finally1"
                /\ UNCHANGED <<xact, conn, timerConn>>
    /\ UNCHANGED <<plan, timed, fshard, mshard, mirror, mchanged, timerState, inflight,
                   canceled, ret, rbFailed, ops, flags>>
    /\ UNCHANGED hist
    /\ UNCHANGED <<dataVars, sideVars>>

\* the first statement is sent on the first shard's connection
Stmt1Issue ==
    /\ pc = "stmt1"
    /\ inflight' = conn
    /\ pc' = "stmt1_run"
    /\ UNCHANGED <<plan, timed, fshard, mshard, conn, tpc, xact, mirror, mchanged, pool,
                   timerConn, timerState, canceled, exc, ret, faults, rbFailed,
                   ops, flags>>
    /\ UNCHANGED hist
    /\ UNCHANGED <<dataVars, sideVars>>

\* the first statement ends; the body of `with tpc as conn` runs to its end
Stmt1Done ==
    LET \* what the first statement can do: the flag plans' statement is decided
        \* by the row; a statement cancelled by the timer raises QueryCanceledError
        Stmt1Outcomes ==
            LET \* the first statement is an insert that can meet a unique violation
                FirstInserts(p) == p \in {"set_alias", "create_relationship_pair", "create_name"}
            IN
            IF canceled THEN {"canceled"}
            ELSE (IF plan \in FlagPlans
                  THEN {IF flags.frow.exists THEN "ok" ELSE "falsy"}
                  ELSE {"ok", "falsy"})
                 \cup (IF FirstInserts(plan) THEN {"integrity"} ELSE {})
                 \cup (IF faults > 0 THEN {"error"} ELSE {})
    IN
    LET \* what the plan does when the first statement reports no row:
        \* tpc.fail()?, then a return or a raise
        FirstFalsy(p) ==
            CASE p = "set_alias" ->
                    {[fail |-> TRUE, ret |-> "False", exc |-> "none"],
                     [fail |-> TRUE, ret |-> "none", exc |-> "AliasInUse"]}
              [] p = "create_relationship_pair" ->
                    {[fail |-> TRUE, ret |-> "none", exc |-> "NoObject"]}
              [] p \in {"set_alias_flags", "update_relationship",
                        "set_relationship_flags", "set_name_flags"} ->
                    {[fail |-> TRUE, ret |-> "None", exc |-> "none"]}
              [] p \in {"remove_phonetic_lookups_both", "reorder_name"} ->
                    {[fail |-> FALSE, ret |-> "False", exc |-> "none"]}
              [] OTHER -> {[fail |-> TRUE, ret |-> "False", exc |-> "none"]}
    IN
    LET \* timer.conn is reset by a try/finally around the first statement, that is
        \* before TwoPhaseCommit.__exit__; the other plans reset it after the block
        TimerInner(p) ==
            p \in {"set_alias_flags", "remove_alias", "create_relationship_pair",
                   "update_relationship", "set_relationship_flags",
                   "remove_relationship_pair"}
    IN
    /\ pc = "stmt1_run"
    /\ \E o \in Stmt1Outcomes :
        /\ faults' = Spend(o)
        /\ hist' = [hist EXCEPT !.canceledStmt = @ \/ canceled, !.first = o]
        /\ CASE o = "ok" ->
                    /\ flags' = IF plan \in FlagPlans
                                THEN LET r == SetFlags(flags.frow, flags.add, flags.clear)
                                     IN [flags EXCEPT !.fpend = r.flags, !.res = r.flags]
                                ELSE flags
                    /\ ret' = IF plan = "reorder_name" THEN "True" ELSE ret
                    /\ UNCHANGED <<tpc, exc>>
             [] o = "falsy" ->
                    /\ \E r \in FirstFalsy(plan) :
                        /\ tpc' = [tpc EXCEPT !.failed = r.fail]
                        /\ ret' = r.ret
                        /\ exc' = r.exc
                    /\ flags' = flags
             [] o = "integrity" ->
                    /\ exc' = "IntegrityError"
                    /\ UNCHANGED <<tpc, ret, flags>>
             [] o = "canceled" ->
                    /\ exc' = "QueryCanceledError"
                    /\ UNCHANGED <<tpc, ret, flags>>
             [] o = "error" ->
                    /\ exc' = "DBError"
                    /\ UNCHANGED <<tpc, ret, flags>>
    /\ inflight' = None
    /\ canceled' = FALSE
    /\ timerConn' = IF TimerInner(plan) THEN None ELSE timerConn
    \* reorder_name commits or rolls back on the connection itself
    /\ pc' = IF plan = "reorder_name" THEN "finally1" ELSE "exit1"
    /\ UNCHANGED <<plan, timed, fshard, mshard, conn, xact, mirror, mchanged,
                   pool, timerState, rbFailed, ops>>
    /\ UNCHANGED <<dataVars, sideVars>>

\* TwoPhaseCommit.__exit__ sends tpc_rollback or tpc_prepare
Exit1Issue ==
    /\ pc = "exit1"
    /\ inflight' = tpc.conn
    /\ pc' = "exit1_run"
    /\ UNCHANGED <<plan, timed, fshard, mshard, conn, tpc, xact, mirror,
                   mchanged, pool, timerConn, timerState, canceled, exc, ret,
                   faults, rbFailed, flags, ops>>
    /\ UNCHANGED hist
    /\ UNCHANGED <<dataVars, sideVars>>

\* TwoPhaseCommit.__exit__: tpc_rollback or tpc_prepare ends. The transaction
\* is rolled back or prepared (a PREPARE that fails is a rollback); after a
\* prepare conn.reset() follows on the same connection
Exit1Done ==
    LET ExitOutcomes == IF canceled THEN {"canceled"} ELSE CallOutcomes
    IN
    /\ pc = "exit1_run"
    /\ \E o \in ExitOutcomes :
        LET d == ExitDecision(tpc.failed, exc # "none")
            err == IF o = "canceled" THEN "QueryCanceledError" ELSE "DBError"
        IN  /\ faults' = Spend(o)
            /\ CASE d = "rollback" /\ o = "ok" ->
                        /\ xact' = "rolledback"
                        /\ tpc' = [conn |-> None, failed |-> TRUE]
                        /\ inflight' = None
                        /\ pc' = "except1"
                        /\ UNCHANGED <<exc, ret>>
                 [] d = "rollback" /\ o # "ok" ->
                        \* a cancelled ROLLBACK still aborts the transaction
                        /\ xact' = IF o = "canceled" THEN "rolledback" ELSE xact
                        /\ tpc' = [tpc EXCEPT !.conn = None]
                        /\ inflight' = None
                        /\ pc' = "except1"
                        /\ exc' = err
                        /\ ret' = "none"
                 [] d = "prepare" /\ o = "ok" ->
                        /\ xact' = "prepared"
                        /\ inflight' = tpc.conn
                        /\ pc' = "reset1_run"
                        /\ UNCHANGED <<tpc, exc, ret>>
                 [] d = "prepare" /\ o # "ok" ->
                        /\ xact' = "rolledback"
                        /\ tpc' = [tpc EXCEPT !.conn = None]
                        /\ inflight' = None
                        /\ pc' = "except1"
                        /\ exc' = err
                        /\ ret' = "none"
                 [] OTHER ->
                        /\ tpc' = [tpc EXCEPT !.conn = None]
                        /\ inflight' = None
                        /\ pc' = "except1"
                        /\ UNCHANGED <<xact, exc, ret>>
    /\ canceled' = FALSE
    /\ UNCHANGED <<plan, timed, fshard, mshard, conn, mirror, mchanged, pool,
                   timerConn, timerState, rbFailed, flags, ops>>
    /\ UNCHANGED hist
    /\ UNCHANGED <<dataVars, sideVars>>

\* TwoPhaseCommit.__exit__: conn.reset() after tpc_prepare ends, then the
\* finally clause forgets _conn. The reset's statements run on a connection
\* the timer may still be bound to
Exit1Reset ==
    /\ pc = "reset1_run"
    /\ IF canceled
       THEN exc' = "QueryCanceledError" /\ ret' = "none"
       ELSE UNCHANGED <<exc, ret>>
    /\ tpc' = [tpc EXCEPT !.conn = None]
    /\ inflight' = None
    /\ canceled' = FALSE
    /\ pc' = "except1"
    /\ UNCHANGED <<plan, timed, fshard, mshard, conn, xact, mirror, mchanged,
                   pool, timerConn, timerState, faults, rbFailed, flags, ops>>
    /\ UNCHANGED hist
    /\ UNCHANGED <<dataVars, sideVars>>

\* the `except psycopg2.IntegrityError` clause of the first block
Except1 ==
    /\ pc = "except1"
    /\ IF exc = "IntegrityError"
       THEN \E r \in FirstIntegrity(plan) : ret' = r.ret /\ exc' = r.exc
       ELSE UNCHANGED <<exc, ret>>
    /\ pc' = "finally1"
    /\ UNCHANGED <<plan, timed, fshard, mshard, conn, tpc, xact, mirror, mchanged, pool,
                   timerConn, timerState, inflight, canceled, faults, rbFailed,
                   ops, flags>>
    /\ UNCHANGED hist
    /\ UNCHANGED <<dataVars, sideVars>>

\* a finally clause that keeps the first shard's connection
Finally1KeepsConn ==
    LET \* the first block's finally tests `conn` before pool.put(conn)
        PutGuarded(p) == p \in {"set_alias", "create_relationship_pair", "create_name",
                                "remove_phonetic_lookups_both",
                                "apply_flags_to_phonetic_lookups_both"}
    IN
    /\ pc = "finally1"
    /\ CASE conn = Unbound ->
                /\ exc' = "UnboundLocalError"
                /\ ret' = "none"
                /\ UNCHANGED <<pool, timerConn>>
         [] conn = None /\ PutGuarded(plan) ->
                /\ timerConn' = None
                /\ UNCHANGED <<pool, exc, ret>>
         [] OTHER ->
                /\ timerConn' = None
                /\ UNCHANGED <<pool, exc, ret>>
    /\ pc' = IF exc' # "none" \/ ret' # "none" THEN "timer_exit" ELSE "elsewhere"
    /\ UNCHANGED <<plan, timed, fshard, mshard, conn, tpc, xact, mirror, mchanged,
                   timerState, inflight, canceled, faults, rbFailed, ops, flags>>
    /\ UNCHANGED hist
    /\ UNCHANGED <<dataVars, sideVars>>

\* the `finally` clause of the first block: pool.put(conn), timer.conn = None
Finally1 ==
    LET \* the first block's finally tests `conn` before pool.put(conn)
        PutGuarded(p) == p \in {"set_alias", "create_relationship_pair", "create_name",
                                "remove_phonetic_lookups_both",
                                "apply_flags_to_phonetic_lookups_both"}
    IN
    /\ pc = "finally1"
    /\ CASE conn = Unbound ->
                /\ exc' = "UnboundLocalError"
                /\ ret' = "none"
                /\ UNCHANGED <<pool, timerConn>>
         [] conn = None /\ PutGuarded(plan) ->
                /\ timerConn' = None
                /\ UNCHANGED <<pool, exc, ret>>
         [] OTHER ->
                /\ pool' = PoolPut(pool, conn)
                /\ timerConn' = None
                /\ UNCHANGED <<exc, ret>>
    /\ pc' = IF exc' # "none" \/ ret' # "none" THEN "timer_exit" ELSE "elsewhere"
    /\ UNCHANGED <<plan, timed, fshard, mshard, conn, tpc, xact, mirror, mchanged,
                   timerState, inflight, canceled, faults, rbFailed, ops, flags>>
    /\ UNCHANGED hist
    /\ UNCHANGED <<dataVars, sideVars>>

\* TwoPhaseCommit.elsewhere(), up to the yield
Elsewhere ==
    /\ pc = "elsewhere"
    /\ IF tpc.failed
       THEN exc' = "RuntimeError" /\ pc' = "timer_exit"
       ELSE exc' = exc /\ pc' = "mget"
    /\ UNCHANGED <<plan, timed, fshard, mshard, conn, tpc, xact, mirror, mchanged, pool,
                   timerConn, timerState, inflight, canceled, ret, faults,
                   rbFailed, ops, flags>>
    /\ UNCHANGED hist
    /\ UNCHANGED <<dataVars, sideVars>>

\* the mirror block borrows the mirror shard's connection; timer.conn = conn
MirrorGet ==
    /\ pc = "mget"
    /\ pool[mshard] > 0
    /\ pool' = PoolGet(pool, mshard)
    /\ conn' = mshard
    /\ timerConn' = mshard
    /\ pc' = "mstmt"
    /\ UNCHANGED <<plan, timed, fshard, mshard, tpc, xact, mirror, mchanged, timerState,
                   inflight, canceled, exc, ret, faults, rbFailed, ops, flags>>
    /\ UNCHANGED hist
    /\ UNCHANGED <<dataVars, sideVars>>

\* the mirror statement is sent
MirrorIssue ==
    /\ pc = "mstmt"
    /\ inflight' = conn
    /\ mirror' = "open"
    /\ pc' = "mstmt_run"
    /\ UNCHANGED <<plan, timed, fshard, mshard, conn, tpc, xact, mchanged, pool,
                   timerConn, timerState, canceled, exc, ret, faults, rbFailed,
                   ops, flags>>
    /\ UNCHANGED hist
    /\ UNCHANGED <<dataVars, sideVars>>

\* the mirror statement ends and the rest of the mirror block runs
MirrorDone ==
    LET \* what the mirror statement can do
        MirrorOutcomes ==
            LET MirrorInserts(p) ==
                    p \in {"set_alias", "create_relationship_pair", "move_node", "create_name"}
            IN
            LET \* the mirror statement returns a value that is compared with the first's
                MirrorCompares(p) ==
                    p \in {"set_alias_flags", "update_relationship", "set_relationship_flags",
                           "set_name_flags", "apply_flags_to_phonetic_lookups_both"}
            IN
            IF canceled THEN {"canceled"}
            ELSE (IF plan \in FlagPlans
                  THEN {LET r == SetFlags(flags.mrow, flags.add, flags.clear)
                        IN MirrorVerdict(r.found, r.flags, flags.res)}
                  ELSE {"ok", "falsy"}
                       \cup (IF MirrorCompares(plan) THEN {"differs"} ELSE {}))
                 \cup (IF MirrorInserts(plan) THEN {"integrity"} ELSE {})
                 \cup (IF faults > 0 THEN {"error"} ELSE {})
    IN
    LET \* what the plan does when the mirror statement reports no row or a result
        \* that differs: conn.rollback()?, tpc.fail()?, then a return or a raise
        MirrorFalsy(p) ==
            CASE p = "set_alias" ->
                    [rollback |-> TRUE, fail |-> TRUE, ret |-> "none", exc |-> "NoObject"]
              [] p = "create_relationship_pair" ->
                    [rollback |-> FALSE, fail |-> TRUE, ret |-> "none", exc |-> "NoObject"]
              [] p \in {"set_alias_flags", "update_relationship", "set_relationship_flags"} ->
                    [rollback |-> TRUE, fail |-> TRUE, ret |-> "None", exc |-> "none"]
              [] p = "set_name_flags" ->
                    [rollback |-> TRUE, fail |-> FALSE, ret |-> "None", exc |-> "none"]
              [] p = "remove_relationship_pair" ->
                    [rollback |-> TRUE, fail |-> TRUE, ret |-> "False", exc |-> "none"]
              [] p \in {"remove_alias", "remove_phonetic_lookups_both",
                        "apply_flags_to_phonetic_lookups_both"} ->
                    [rollback |-> TRUE, fail |-> TRUE, ret |-> "False", exc |-> "none"]
              [] OTHER ->
                    [rollback |-> FALSE, fail |-> TRUE, ret |-> "False", exc |-> "none"]
    IN
    LET \* the mirror connection is borrowed with replace=False and managed by hand
        MirrorManual(p) == p = "remove_relationship_pair"
    IN
    /\ pc = "mstmt_run"
    /\ \E o \in MirrorOutcomes :
        LET f == MirrorFalsy(plan)
            err == CASE o = "integrity" -> "IntegrityError"
                     [] o = "canceled" -> "QueryCanceledError"
                     [] OTHER -> "DBError"
            written == SetFlags(flags.mrow, flags.add, flags.clear).flags
        IN  /\ faults' = Spend(o)
            /\ hist' = [hist EXCEPT !.canceledStmt = @ \/ o = "canceled",
                                    !.mirrorErr = IF o \in {"ok", "falsy", "differs"}
                                                  THEN "none" ELSE err,
                                    !.second = o]
            /\ CASE o = "ok" ->
                        /\ mchanged' = TRUE
                        /\ ret' = IF MirrorManual(plan) THEN "True" ELSE ret
                        /\ flags' = [flags EXCEPT !.mpend = written, !.mout = o]
                        /\ UNCHANGED <<tpc, exc, mirror>>
                 [] o \in {"falsy", "differs"} ->
                        /\ mchanged' = (o = "differs" /\ ~f.rollback)
                        /\ mirror' = IF f.rollback THEN "rolledback" ELSE mirror
                        /\ tpc' = [tpc EXCEPT !.failed = @ \/ f.fail]
                        /\ ret' = f.ret
                        /\ exc' = f.exc
                        /\ flags' = [flags EXCEPT !.mout = o]
                 [] OTHER ->
                        \* the statement raised
                        /\ mchanged' = FALSE
                        /\ flags' = flags
                        /\ IF MirrorManual(plan)
                           THEN /\ mirror' = "rolledback"
                                /\ tpc' = [tpc EXCEPT !.failed = TRUE]
                                /\ ret' = "False"
                                /\ exc' = "none"
                           ELSE /\ exc' = err
                                /\ UNCHANGED <<mirror, tpc, ret>>
    /\ inflight' = None
    /\ canceled' = FALSE
    \* the mirror blocks reset timer.conn in a finally clause; the block of
    \* remove_relationship_pair sets it and never resets it
    /\ timerConn' = IF MirrorManual(plan) THEN timerConn ELSE None
    /\ pc' = "mexit"
    /\ UNCHANGED <<plan, timed, fshard, mshard, conn, xact, pool, timerState,
                   rbFailed, ops>>
    /\ UNCHANGED <<dataVars, sideVars>>

\* the mirror connection is released: the scoped acquisition commits on a
\* normal exit and rolls back on an exception, then puts the connection back
\* (remove_relationship_pair does the same by hand)
MirrorExit ==
    /\ pc = "mexit"
    /\ \E o \in CallOutcomes :
        /\ CASE mirror = "open" /\ exc # "none" ->
                    /\ o = "ok"
                    /\ mirror' = "rolledback"
                    /\ UNCHANGED <<faults, exc, ret, flags>>
             [] mirror = "open" /\ exc = "none" /\ o = "ok" ->
                    /\ mirror' = "committed"
                    /\ flags' = IF plan \in FlagPlans /\ mchanged
                                THEN [flags EXCEPT !.mrow.flags = flags.mpend]
                                ELSE flags
                    /\ UNCHANGED <<faults, exc, ret>>
             [] mirror = "open" /\ exc = "none" /\ o = "error" ->
                    /\ mirror' = "rolledback"
                    /\ faults' = Spend(o)
                    /\ exc' = "DBError"
                    /\ ret' = "none"
                    /\ flags' = flags
             [] OTHER ->
                    /\ o = "ok"
                    /\ UNCHANGED <<mirror, faults, exc, ret, flags>>
    /\ pool' = PoolPut(pool, conn)
    /\ pc' = "else_end"
    /\ UNCHANGED <<plan, timed, fshard, mshard, conn, tpc, xact, mchanged,
                   timerConn, timerState, inflight, canceled, rbFailed, ops>>
    /\ UNCHANGED hist
    /\ UNCHANGED <<dataVars, sideVars>>

\* TwoPhaseCommit.elsewhere() after the yield, with rollback()/commit():
\* each borrows the first shard's connection and frees it in its finally
ElsewhereEnd ==
    LET \* the value a plan returns when both steps succeeded
        SuccessValue(p) ==
            IF p \in {"set_alias_flags", "set_relationship_flags", "set_name_flags"}
            THEN "flags" ELSE "True"
    IN
    /\ pc = "else_end"
    /\ pool[fshard] > 0
    /\ \E o \in CallOutcomes :
        LET d == ElsewhereDecision(tpc.failed, exc # "none")
        IN  /\ faults' = Spend(o)
            /\ CASE d = "rollback_reraise" ->
                        /\ xact' = IF o = "ok" THEN "rolledback" ELSE xact
                        /\ rbFailed' = (o # "ok")
                        /\ flags' = flags
                        \* create_relationship_pair catches IntegrityError
                        /\ IF exc = "IntegrityError" /\ plan = "create_relationship_pair"
                           THEN exc' = "none" /\ ret' = "False"
                           ELSE UNCHANGED <<exc, ret>>
                 [] d = "reraise" ->
                        /\ o = "ok"
                        /\ UNCHANGED <<xact, rbFailed, exc, ret, flags>>
                 [] d = "rollback" ->
                        /\ xact' = IF o = "ok" THEN "rolledback" ELSE xact
                        /\ rbFailed' = (o # "ok")
                        /\ exc' = IF o = "ok" THEN exc ELSE "DBError"
                        /\ ret' = IF o = "ok" THEN ret ELSE "none"
                        /\ flags' = flags
                 [] d = "commit" ->
                        /\ xact' = IF o = "ok" THEN "committed" ELSE xact
                        /\ rbFailed' = rbFailed
                        /\ exc' = IF o = "ok" THEN exc ELSE "DBError"
                        /\ ret' = IF o # "ok" THEN "none"
                                  ELSE IF ret = "none" THEN SuccessValue(plan)
                                  ELSE ret
                        /\ flags' = IF o = "ok" /\ plan \in FlagPlans
                                    THEN [flags EXCEPT !.frow.flags = flags.fpend]
                                    ELSE flags
    /\ pc' = "timer_exit"
    /\ UNCHANGED <<plan, timed, fshard, mshard, conn, tpc, mirror, mchanged,
                   pool, timerConn, timerState, inflight, canceled, ops>>
    /\ UNCHANGED hist
    /\ UNCHANGED <<dataVars, sideVars>>

\* Timer.__exit__: a QueryCanceledError becomes Timeout, else the timer is
\* cancelled (without a timeout the plan runs outside the timer)
TimerExit ==
    /\ pc = "timer_exit"
    /\ IF timed /\ exc = "QueryCanceledError"
       THEN exc' = "Timeout" /\ timerState' = timerState
       ELSE exc' = exc /\ timerState' = IF timed THEN "done" ELSE "off"
    /\ pc' = "done"
    /\ UNCHANGED <<plan, timed, fshard, mshard, conn, tpc, xact, mirror, mchanged, pool,
                   timerConn, inflight, canceled, ret, faults, rbFailed, ops, flags>>
    /\ UNCHANGED hist
    /\ UNCHANGED <<dataVars, sideVars>>

\* Timer.ding: the deadline expires; the bound connection, if any, is
\* cancelled, which fails the statement running on it
Ding ==
    /\ timerState = "armed"
    /\ pc \notin {"idle", "done"}
    /\ timerState' = "fired"
    /\ canceled' = (timerConn # None /\ inflight = timerConn)
    /\ UNCHANGED <<plan, timed, fshard, mshard, pc, conn, tpc, xact, mirror, mchanged,
                   pool, timerConn, inflight, exc, ret, faults, rbFailed, ops, flags>>
    /\ UNCHANGED hist
    /\ UNCHANGED <<dataVars, sideVars>>

\* the call is over; the caller goes on
Finish ==
    /\ pc = "done"
    /\ pc' = "idle"
    /\ ops' = ops + 1
    /\ plan' = "none"
    /\ timed' = FALSE
    /\ fshard' = 1
    /\ mshard' = 1
    /\ conn' = Unbound
    /\ tpc' = [conn |-> None, failed |-> FALSE]
    /\ xact' = "none"
    /\ mirror' = "none"
    /\ mchanged' = FALSE
    /\ timerConn' = None
    /\ timerState' = "off"
    /\ inflight' = None
    /\ canceled' = FALSE
    /\ exc' = "none"
    /\ ret' = "none"
    /\ rbFailed' = FALSE
    /\ flags' = FlagsIdle
    /\ UNCHANGED <<pool, faults>>
    /\ hist' = HistIdle
    /\ UNCHANGED <<dataVars, sideVars>>

Next ==
    \/ Start
    \/ Enter
    \/ Stmt1Issue
    \/ Stmt1Done
    \/ Exit1Issue
    \/ Exit1Done
    \/ Exit1Reset
    \/ Except1
    \/ Finally1
    \/ Elsewhere
    \/ MirrorGet
    \/ MirrorIssue
    \/ MirrorDone
    \/ MirrorExit
    \/ ElsewhereEnd
    \/ TimerExit
    \/ Ding
    \/ Finish

Spec == Init /\ [][Next]_vars

SpecNoFault == InitNoFault /\ [][Next]_vars

\* C12: a timed operation one of whose statements, on the first shard or
\* on the mirror shard, was cancelled by the timer ends by raising Timeout
C12_CanceledRaisesTimeout ==
    pc = "done" /\ timed /\ hist.canceledStmt => exc = "Timeout"

\* C13: when the mirror statement raised an error of the driver, the
\* operation raises an error of that kind, and the prepared first shard was
\* rolled back unless the rollback itself failed
C13_MirrorErrorSurfaces ==
    pc = "done" /\ hist.mirrorErr = "DBError" =>
        exc = "DBError" /\ (xact = "rolledback" \/ rbFailed)

\* C18: creating a relationship raises NoObject when the base_id object
\* (first insert reports no row) or the rel_id object (reverse insert
\* reports no row) does not exist; neither row exists afterwards, and the
\* forward row prepared on base_id's shard is rolled back in the second case.
C18_CreateNoObject ==
    /\ pc = "done" /\ plan = "create_relationship_pair"
    /\ (hist.first = "falsy" \/ hist.second = "falsy")
    => /\ exc = "NoObject"
       /\ xact = "rolledback"
       /\ mirror # "committed"

\* the rel_id object was the missing one: the forward insert had been
\* prepared and is rolled back
C18_Witness ==
    /\ pc = "done" /\ plan = "create_relationship_pair"
    /\ hist.first = "ok" /\ hist.second = "falsy"
    /\ exc = "NoObject"
    /\ xact = "rolledback"

\* C19: creating a relationship that already exists (unique violation on
\* the forward or on the reverse insert) returns false and changes no row;
\* a forward row prepared before the violation is rolled back.
C19_CreateExisting ==
    /\ pc = "done" /\ plan = "create_relationship_pair"
    /\ (hist.first = "integrity" \/ hist.second = "integrity")
    => /\ ret = "False" /\ exc = "none"
       /\ xact = "rolledback"
       /\ mirror # "committed"

\* the violation was met on the reverse insert only
C19_Witness ==
    /\ pc = "done" /\ plan = "create_relationship_pair"
    /\ hist.first = "ok" /\ hist.second = "integrity"
    /\ ret = "False"
    /\ xact = "rolledback"

\* C20: when set_name_flags' update of the lookup row finds no row or
\* returns a bitmap that differs from the name row's new bitmap, the call
\* returns null and the change prepared on the name row is rolled back: the
\* name row keeps the flags it had.
C20_NameFlagsRolledBack ==
    /\ pc = "done" /\ plan = "set_name_flags"
    /\ flags.mout \in {"falsy", "differs"}
    => /\ ret = "None" /\ exc = "none"
       /\ xact = "rolledback"
       /\ flags.frow = flags.f0

(***************************************************************************)
(* The relationship API, step by step                                      *)
(***************************************************************************)
\* an entry point is called
ApiCall ==
    LET \* what context.META holds for the ctx argument: nothing, a context of
        \* another table, or a relationship context with or without base_ctx,
        \* rel_ctx and storage; "union" is a relationship context whose base_ctx
        \* and rel_ctx are sets of contexts and that has no storage class
        CtxKinds == {"unregistered", "other_table", "relationship_bare", "relationship",
                     "union"}
    IN
    LET ApiOps == {"create", "update", "set_flags", "shift", "remove"}
    IN
    /\ api.pc = "idle"
    /\ api.calls < MaxOps
    /\ \E o \in ApiOps, ro \in BOOLEAN, c \in CtxKinds, f \in BOOLEAN :
        api' = [api EXCEPT !.pc = "run", !.i = 1, !.op = o, !.readonly = ro, !.ctx = c,
                           !.flagsOk = f, !.exc = "none", !.dbWork = FALSE]
    /\ UNCHANGED apiRest

\* `if pool.readonly: raise error.ReadOnly()`
ApiFence ==
    /\ ApiAt("fence")
    /\ api' = IF api.readonly THEN ApiRaise("ReadOnly") ELSE ApiGoOn
    /\ UNCHANGED apiRest

\* the ctx test and the flag conversion
ApiValidate ==
    LET \* the error the entry point's argument checks raise, "none" if none:
        \* BadContext from the ctx test, BadFlag from util.flags_to_int
        ApiValidation(op, ctx, flagsOk) ==
            CASE op = "create" ->
                    IF ctx # "relationship" THEN "BadContext"
                    ELSE IF ~flagsOk THEN "BadFlag" ELSE "none"
              [] op = "update" ->
                    IF ctx # "relationship" THEN "BadContext" ELSE "none"
              [] op = "set_flags" ->
                    IF ctx \in {"unregistered", "other_table"} THEN "BadContext"
                    ELSE IF ~flagsOk THEN "BadFlag" ELSE "none"
              [] OTHER -> "none"
    IN
    /\ ApiAt("validate")
    /\ LET e == ApiValidation(api.op, api.ctx, api.flagsOk)
       IN api' = IF e # "none" THEN ApiRaise(e) ELSE ApiGoOn
    /\ UNCHANGED apiRest

\* the plan of txn.py (for shift, the scoped connection and its statement)
\* runs: connections are borrowed and statements issued
ApiTxn ==
    /\ ApiAt("txn")
    /\ api' = [api EXCEPT !.pc = "done", !.dbWork = TRUE]
    /\ UNCHANGED apiRest

\* the caller goes on
ApiReturn ==
    /\ api.pc = "done"
    /\ api' = [api EXCEPT !.pc = "idle", !.calls = @ + 1]
    /\ UNCHANGED apiRest

SpecApi ==
    /\ InitNoFault
    /\ [][\/ ApiCall
          \/ ApiFence
          \/ ApiValidate
          \/ ApiTxn
          \/ ApiReturn]_vars

\* C14: on a read-only pool create, update, set_flags, shift and remove
\* raise ReadOnly and neither borrow a connection nor issue a statement,
\* whatever the ctx and the flags are
C14_ReadOnlyFence ==
    api.pc = "done" /\ api.readonly => api.exc = "ReadOnly" /\ ~api.dbWork

\* a call with an unregistered ctx and an unregistered flag was fenced
C14_Witness ==
    /\ api.pc = "done" /\ api.readonly /\ api.ctx = "unregistered" /\ ~api.flagsOk
    /\ api.exc = "ReadOnly" /\ api.op = "set_flags"

(***************************************************************************)
(* remove_node, step by step                                               *)
(***************************************************************************)
\* the database is empty and remove_node has not been called
InitEstate ==
    /\ Idle
    /\ DataIdle
    /\ SideIdle
    /\ pool = [s \in Shards |-> PoolSize]
    /\ ops = 0
    /\ faults \in 0..MaxFaults

\* remove_node(id = 1, base_id = 0) is called on the rows of a scenario
Call(scenarios) ==
    /\ epc = "idle"
    /\ \E sc \in scenarios : cfg' = sc.cfg /\ live' = sc.rows /\ live0' = sc.rows
    /\ epc' = "start"
    /\ UNCHANGED <<tpcs, estate, ids, eres, faults>>
    /\ UNCHANGED <<planVars, client, sideVars>>

CallAny ==
    LET Scenarios ==
            LET \* a relationship base_id -> rel_id with at least one end in the chain
                RelEnds ==
                    {e \in Estate \X Estate : e[1] # e[2] /\ (e[1] \in Owners \/ e[2] \in Owners)}
            IN
            LET UndirectedScenarios ==
                    {[cfg |-> PlainCfg(sh),
                      rows |-> ChainRows(PlainCfg(sh))
                                 \cup {UndirectedRow(sh[e[1]], e[1], e[2]),
                                       UndirectedRow(sh[e[2]], e[2], e[1])}] :
                        sh \in [Nodes -> Shards], e \in RelEnds}
            IN
            LET RelScenarios ==
                    {[cfg |-> PlainCfg(sh),
                      rows |-> ChainRows(PlainCfg(sh))
                                 \cup {RelRow(sh[e[1]], e[1], e[2], 1),
                                       RelRow(sh[e[2]], e[1], e[2], 0)}] :
                        sh \in [Nodes -> Shards], e \in RelEnds}
            IN
            LET NameRow(cf, n, c) == Row("name", cf.shardOf[n], n, c, 1, 0)
            IN
            LET \* a PHONETIC name: one lookup row per dmetaphone code, each on the shard
                \* pool.shard_for_phonetic_write gave for its code (dmalt may be None)
                PhoneticScenarios ==
                    LET PhoneticLookupRow(s, n, c, code) == Row("phonetic_lookup", s, n, c, 1, code)
                    IN
                    {[cfg |-> [PlainCfg(sh) EXCEPT !.prefixRead = pr],
                      rows |-> ChainRows(PlainCfg(sh))
                                 \cup {NameRow(PlainCfg(sh), n, "PHONETIC"),
                                       PhoneticLookupRow(dm, n, "PHONETIC", 1)}
                                 \cup (IF da = None THEN {}
                                       ELSE {PhoneticLookupRow(da, n, "PHONETIC", 2)})] :
                        sh \in [Nodes -> Shards], pr \in ReadLists, n \in Owners,
                        dm \in Shards, da \in Shards \cup {None}}
            IN
            LET \* a PREFIX name: its lookup row is on one shard of the prefix read list
                PrefixScenarios ==
                    LET PrefixLookupRow(s, n, c) == Row("prefix_lookup", s, n, c, 1, 0)
                    IN
                    UNION {{[cfg |-> [PlainCfg(sh) EXCEPT !.prefixRead = pr],
                             rows |-> ChainRows(PlainCfg(sh))
                                        \cup {NameRow(PlainCfg(sh), n, "PREFIX"),
                                              PrefixLookupRow(pr[i], n, "PREFIX")}] :
                                i \in DOMAIN pr} :
                           sh \in [Nodes -> Shards], pr \in ReadLists, n \in Owners}
            IN
            GraphScenarios \cup AliasScenarios \cup PrefixScenarios
                \cup PhoneticScenarios \cup RelScenarios \cup UndirectedScenarios
    IN
           Call(Scenarios)

CallGraph == Call(GraphScenarios)

\* one TwoPhaseCommit handle of `tpcs`: its shard, the server-side state of
\* its transaction, the rows the transaction tombstoned, and whether
\* rollback() or commit() was called on it after its transaction had ended
Handle(s, st, rows) == [shard |-> s, state |-> st, rem |-> rows, late |-> FALSE]

\* rows tombstoned by the operation's other transactions that are not yet
\* committed or rolled back: a statement that has to change one of them
\* waits until that transaction ends
Held(k) ==
    UNION {tpcs[j].rem : j \in {i \in DOMAIN tpcs :
                                   i # k /\ tpcs[i].state \in {"open", "prepared"}}}
        \cup UNION {client[c].rem : c \in {x \in Clients : client[x].state = "prepared"}}

\* what transaction k reads: the committed rows less its own tombstones
View(k) == live \ tpcs[k].rem

\* the edge removal on the parent's shard
RemoveEdge ==
    /\ epc = "start"
    /\ LET s == cfg.shardOf[0]
           hit == {r \in live : r = EdgeRow(cfg, 0, 1)}
       IN \E o \in CallOutcomes :
            /\ faults' = Spend(o)
            /\ IF o = "error"
               THEN /\ tpcs' = <<Handle(s, "rolledback", {})>>
                    /\ eres' = [ret |-> "none", exc |-> "DBError"]
                    /\ epc' = "done"
                    /\ UNCHANGED estate
               ELSE IF hit = {}
               THEN /\ tpcs' = <<Handle(s, "rolledback", {})>>
                    /\ eres' = [ret |-> "False", exc |-> "none"]
                    /\ epc' = "done"
                    /\ UNCHANGED estate
               ELSE /\ tpcs' = <<Handle(s, "prepared", hit)>>
                    /\ estate' = <<EstateEntry(cfg.shardOf[1], {1})>>
                    /\ epc' = "loop"
                    /\ UNCHANGED eres
    /\ UNCHANGED <<cfg, live, live0, ids>>
    /\ UNCHANGED <<planVars, client, sideVars>>

\* `while estates`: the next shard's handle is opened and its pending ids
\* are taken; an empty map ends the loop
LoopHead ==
    /\ epc = "loop"
    /\ IF estate = <<>>
       THEN /\ epc' = "commit"
            /\ UNCHANGED <<tpcs, estate, ids>>
       ELSE /\ tpcs' = Append(tpcs, Handle(estate[1].shard, "open", {}))
            /\ ids' = estate[1].ids
            /\ estate' = [estate EXCEPT ![1].ids = {}]
            /\ epc' = "round"
    /\ UNCHANGED <<cfg, live, live0, eres, faults>>
    /\ UNCHANGED <<planVars, client, sideVars>>

\* the children are not queued at all
ChildAddsDropped(rows) == <<>>

\* every child is queued on the shard of its id
ChildAdds(rows) ==
    LET q == Listed(rows)
    IN [i \in DOMAIN q |-> [s |-> cfg.shardOf[q[i].o], f |-> "ids", x |-> q[i].o]]

\* one pass of `while ids` in _remove_local_estates
Round ==
    LET OwnedRels(view, s, nodes) ==
            {r \in view : /\ r.k = "rel" /\ r.s = s
                          /\ \/ r.v = 1 /\ r.b \in nodes
                             \/ r.v = 0 /\ r.o \in nodes}
    IN
    LET \* the rows of shard s the *_multiple_bases statements tombstone for nodes
        OwnedRows(view, s, kind, nodes) ==
            {r \in view : r.k = kind /\ r.s = s /\ r.b \in nodes}
    IN
    LET RelAdds(rows, shard) ==
            LET q == Listed(rows)
                home(r) == IF r.v = 1 THEN cfg.shardOf[r.o] ELSE cfg.shardOf[r.b]
            IN Flatten([i \in DOMAIN q |->
                    IF home(q[i]) = shard THEN <<>>
                    ELSE <<[s |-> home(q[i]), f |-> "rels",
                            x |-> [b |-> q[i].b, fwd |-> 1 - q[i].v, o |-> q[i].o]]>>])
    IN
    LET NameAdds(rows) ==
            LET q == Listed(rows)
            IN Flatten([i \in DOMAIN q |->
                    [j \in DOMAIN cfg.prefixRead |->
                        [s |-> cfg.prefixRead[j], f |-> "nl",
                         x |-> [b |-> q[i].b, c |-> q[i].c, v |-> q[i].v]]]])
    IN
    LET \* where _remove_local_estates queues what the removed rows lead to
        AliasAdds(rows) ==
            LET q == Listed(rows)
            IN Flatten([i \in DOMAIN q |->
                    [j \in DOMAIN cfg.aliasRead |->
                        [s |-> cfg.aliasRead[j], f |-> "al", x |-> q[i].v]]])
    IN
    /\ epc = "round"
    /\ LET k == Len(tpcs)
           S == tpcs[k].shard
           view == View(k)
           nodes == OwnedRows(view, S, "node", ids)
           got == {r.b : r \in nodes}
           props == OwnedRows(view, S, "prop", got)
           aliases == OwnedRows(view, S, "alias", got)
           names == OwnedRows(view, S, "name", got)
           rels == OwnedRels(view, S, got)
           edges == OwnedRows(view, S, "edge", got)
           all == nodes \cup props \cup aliases \cup names \cup rels \cup edges
           est1 == EstateAddAll(estate,
                       AliasAdds(aliases) \o NameAdds(names)
                           \o RelAdds(rels, S) \o ChildAdds(edges))
       IN IF ids = {} \/ got = {}
          THEN /\ nodes \cap Held(k) = {}
               /\ epc' = "final"
               /\ ids' = {}
               /\ UNCHANGED <<tpcs, estate, eres, faults>>
          ELSE /\ all \cap Held(k) = {}
               /\ \E o \in CallOutcomes :
                    /\ faults' = Spend(o)
                    /\ IF o = "ok"
                       THEN /\ tpcs' = [tpcs EXCEPT ![k].rem = @ \cup all]
                            /\ ids' = est1[1].ids
                            /\ estate' = [est1 EXCEPT ![1].ids = {}]
                            /\ epc' = "round"
                            /\ UNCHANGED eres
                       ELSE /\ tpcs' = [tpcs EXCEPT ![k].state = "rolledback"]
                            /\ eres' = [ret |-> "none", exc |-> "DBError"]
                            /\ epc' = "rollback"
                            /\ UNCHANGED <<ids, estate>>
    /\ UNCHANGED <<cfg, live, live0>>
    /\ UNCHANGED <<planVars, client, sideVars>>

\* the tail of _remove_local_estates: the shard's queued lookups and
\* relationship mirrors are removed, the shard leaves the map, and the
\* handle's __exit__ prepares the transaction
Final ==
    LET \* estate[s] of a shard that is not in the map raises KeyError
        MissingEntry(est, readList, shard) ==
            \E s \in Range(readList) \ {shard} : s \notin EstateKeys(est)
    IN
    LET \* estate[s][f].discard(x) for every other shard s of a read list
        DiscardElsewhere(est, readList, shard, f, gone) ==
            [i \in DOMAIN est |->
                IF est[i].shard \in Range(readList) \ {shard}
                THEN [est[i] EXCEPT ![f] = @ \ gone] ELSE est[i]]
    IN
    LET RelHits(view, s, descs) ==
            {r \in view :
                /\ r.k = "rel" /\ r.s = s
                /\ \E d \in descs :
                    \/ d.b = r.b /\ d.o = r.o /\ d.fwd = r.v
                    \* the reverse half of an undirected relationship is stored as
                    \* the forward row of the other id
                    \/ r.c = "undirected" /\ d.fwd = 0 /\ r.v = 1 /\ d.b = r.o /\ d.o = r.b}
    IN
    LET \* _remove_lookups: PREFIX triples go to the prefix table, PHONETIC triples
        \* to the phonetic table
        NameLookupHits(view, s, triples) ==
            {r \in view :
                /\ r.s = s
                /\ \E t \in triples :
                    /\ t.b = r.b /\ t.c = r.c /\ t.v = r.v
                    /\ \/ t.c = "PREFIX" /\ r.k = "prefix_lookup"
                       \/ t.c = "PHONETIC" /\ r.k = "phonetic_lookup"}
    IN
    LET \* the lookup rows of shard s that the *_lookups_multi statements tombstone
        AliasLookupHits(view, s, pairs) ==
            {r \in view : r.k = "alias_lookup" /\ r.s = s /\ r.v \in pairs}
    IN
    /\ epc = "final"
    /\ LET k == Len(tpcs)
           S == tpcs[k].shard
           view == View(k)
           entry == estate[1]
           alRows == AliasLookupHits(view, S, entry.al)
           alGone == {r.v : r \in alRows}
           est1 == DiscardElsewhere(estate, cfg.aliasRead, S, "al", alGone)
           nlRows == NameLookupHits(view, S, entry.nl)
           nlGone == {[b |-> r.b, c |-> r.c, v |-> r.v] : r \in nlRows}
           est2 == DiscardElsewhere(est1, cfg.prefixRead, S, "nl", nlGone)
           relRows == RelHits(view, S, entry.rels)
           keyError ==
               IF alGone # {} /\ MissingEntry(estate, cfg.aliasRead, S) THEN TRUE
               ELSE nlRows \cap Held(k) = {}
                    /\ nlGone # {} /\ MissingEntry(estate, cfg.prefixRead, S)
           waits ==
               \/ alRows \cap Held(k) # {}
               \/ ~(alGone # {} /\ MissingEntry(estate, cfg.aliasRead, S))
                    /\ nlRows \cap Held(k) # {}
               \/ ~keyError /\ relRows \cap Held(k) # {}
       IN /\ ~waits
          /\ IF keyError
             THEN /\ tpcs' = [tpcs EXCEPT ![k].state = "rolledback"]
                  /\ eres' = [ret |-> "none", exc |-> "KeyError"]
                  /\ epc' = "rollback"
                  /\ UNCHANGED <<estate, faults>>
             ELSE \E o \in CallOutcomes :
                    /\ faults' = Spend(o)
                    /\ IF o = "ok"
                       THEN /\ tpcs' = [tpcs EXCEPT
                                          ![k].rem = @ \cup alRows \cup nlRows \cup relRows,
                                          ![k].state = "prepared"]
                            /\ estate' = Tail(est2)
                            /\ epc' = "loop"
                            /\ UNCHANGED eres
                       ELSE /\ tpcs' = [tpcs EXCEPT ![k].state = "rolledback"]
                            /\ eres' = [ret |-> "none", exc |-> "DBError"]
                            /\ epc' = "rollback"
                            /\ UNCHANGED estate
    /\ UNCHANGED <<cfg, live, live0, ids>>
    /\ UNCHANGED <<planVars, client, sideVars>>

\* except Exception: every handle is rolled back, a failing rollback is
\* swallowed, and the exception is raised again
RollbackAll ==
    LET \* the handles `for tpc in tpcs` walks in the except clause
        RollbackTargets(n) == 1..n
    IN
    /\ epc = "rollback"
    /\ LET prepared == {i \in RollbackTargets(Len(tpcs)) : tpcs[i].state = "prepared"}
       IN \E F \in SUBSET prepared :
            /\ Cardinality(F) <= faults
            /\ faults' = faults - Cardinality(F)
            /\ tpcs' = [i \in DOMAIN tpcs |->
                            IF i \in prepared \ F
                            THEN [tpcs[i] EXCEPT !.state = "rolledback"]
                            ELSE IF i \in RollbackTargets(Len(tpcs)) \ prepared
                            THEN [tpcs[i] EXCEPT !.late = TRUE]
                            ELSE tpcs[i]]
    /\ epc' = "done"
    /\ UNCHANGED <<cfg, live, live0, estate, ids, eres>>
    /\ UNCHANGED <<planVars, client, sideVars>>

\* else: `for tpc in tpcs: tpc.commit()`; the first failing commit ends
\* the loop with its exception
CommitAll ==
    LET \* the rows the first n handles' transactions tombstoned
        Committed(n) == UNION {tpcs[i].rem : i \in 1..n}
    IN
    /\ epc = "commit"
    /\ \E n \in 0..Len(tpcs) :
        /\ n < Len(tpcs) => faults > 0
        /\ faults' = IF n < Len(tpcs) THEN faults - 1 ELSE faults
        /\ tpcs' = [i \in DOMAIN tpcs |->
                        IF i <= n THEN [tpcs[i] EXCEPT !.state = "committed"]
                        ELSE tpcs[i]]
        /\ live' = live \ Committed(n)
        /\ eres' = IF n < Len(tpcs) THEN [ret |-> "none", exc |-> "DBError"]
                   ELSE [ret |-> "True", exc |-> "none"]
    /\ epc' = "done"
    /\ UNCHANGED <<cfg, live0, estate, ids>>
    /\ UNCHANGED <<planVars, client, sideVars>>

SpecEstate ==
    /\ InitEstate
    /\ [][\/ CallAny
          \/ RemoveEdge
          \/ LoopHead
          \/ Round
          \/ Final
          \/ RollbackAll
          \/ CommitAll]_vars

\* remove_node on the graphs of edges
NextEstateGraph ==
    \/ CallGraph
    \/ RemoveEdge
    \/ LoopHead
    \/ Round
    \/ Final
    \/ RollbackAll
    \/ CommitAll

\* remove_node is never suspended for good while it can take a step
SpecEstateFair ==
    InitEstate /\ [][NextEstateGraph]_vars /\ WF_vars(NextEstateGraph)

(***************************************************************************)
(* Properties of the two-shard plans                                       *)
(***************************************************************************)
\* C1: once a two-shard plan has returned or raised, either the first
\* shard's change and the mirror's change are both committed, or the first
\* shard's transaction is rolled back (or was never begun) and the mirror's
\* change is not committed
C1_BothOrNeither ==
    LET \* the mirror shard's change is committed
        MirrorCommitted == mirror = "committed" /\ mchanged
    IN
    pc = "done" =>
        \/ xact = "committed" /\ MirrorCommitted
        \/ xact \in {"rolledback", "none"} /\ ~MirrorCommitted

\* C2: no statement runs on the mirror shard between enter() and the
\* prepare of the first shard: the mirror work runs only while the first
\* transaction is prepared, and the first transaction is committed only
\* after the mirror work has ended and its connection is back in the pool
C2_PreparedBeforeMirror ==
    /\ xact = "open" => mirror = "none" /\ pc \notin {"mget", "mstmt", "mstmt_run", "mexit"}
    /\ pc \in {"mstmt", "mstmt_run", "mexit"} => xact = "prepared"
    /\ mirror = "open" => xact = "prepared"
    /\ xact = "committed" => mirror # "open" /\ pc \in {"timer_exit", "done"}

\* the mirror statement is running while the first shard is prepared
C2_Witness == pc = "mstmt_run" /\ xact = "prepared" /\ mirror = "open"

\* C3: when a timed operation ends by raising Timeout, its first shard's
\* transaction is not left PREPARED
C3_NoPreparedAfterTimeout ==
    pc = "done" /\ exc = "Timeout" => xact # "prepared"

\* C4: when no operation is running every borrowed connection is back in
\* the pool: each shard's pool holds its configured number of connections
C4_PoolFull ==
    pc \in {"idle", "done"} => \A s \in Shards : pool[s] = PoolSize

\* C6: when set_relationship_flags or set_alias_flags returns a bitmap, the
\* row and its mirror row both store that bitmap; when the mirror row is
\* missing or the mirror's bitmap differs, the result is null and both rows
\* are as they were
C6_FlagAgreement ==
    pc = "done" /\ plan \in {"set_relationship_flags", "set_alias_flags"} =>
        /\ ret = "flags" =>
            /\ flags.frow.exists /\ flags.mrow.exists
            /\ flags.frow.flags = flags.res
            /\ flags.mrow.flags = flags.res
        /\ flags.mout \in {"falsy", "differs"} =>
            /\ ret = "None" /\ exc = "none"
            /\ flags.frow = flags.f0 /\ flags.mrow = flags.m0
            /\ xact = "rolledback" /\ mirror = "rolledback"

\* a flag plan returned a bitmap that changed both rows
C6_Witness ==
    /\ pc = "done" /\ plan \in {"set_relationship_flags", "set_alias_flags"}
    /\ ret = "flags" /\ flags.frow # flags.f0 /\ flags.mrow # flags.m0

(***************************************************************************)
(* set_alias and remove_alias running beside remove_node                   *)
(***************************************************************************)
\* the alias lookup row of the alias, as select_alias_lookup finds it on a
\* shard: committed rows only
LookupOn(s) == {r \in live : r.k = "alias_lookup" /\ r.s = s}

\* a probe that never finds the lookup
FoundOnNothing(shards) == <<>>

\* the shards of the read list on which the lookup is found, in list order
FoundOn(shards) == SelectSeq(shards, LAMBDA s : LookupOn(s) # {})

\* the call of client c ends with a return value or an exception
ClientEnd(c, r, e) == [client[c] EXCEPT !.pc = "done", !.ret = r, !.exc = e]

\* client c's record becomes rec
Put(c, rec) == [client EXCEPT ![c] = rec]

\* the transactions of the other clients that have not ended
Pending(c) == {d \in Clients : d # c /\ client[d].state = "prepared"}

\* lookup rows the other clients inserted in such transactions: an insert
\* of the same key waits for them (unique index)
PendingInserts(c) == UNION {client[d].ins : d \in Pending(c)}

\* rows the other clients or remove_node tombstoned in such transactions
HeldFrom(c) ==
    LET \* rows tombstoned by remove_node's transactions that have not ended
        EstateHeld ==
            UNION {tpcs[j].rem : j \in {i \in DOMAIN tpcs :
                                           tpcs[i].state \in {"open", "prepared"}}}
    IN
               EstateHeld \cup UNION {client[d].rem : d \in Pending(c)}

\* a caller that goes on to the mirror whatever the lookup insert reported
InsertVerdictBlind(c, s) ==
    [client[c] EXCEPT !.pc = "mirror", !.shard = s, !.state = "prepared",
                      !.ins = IF LookupOn(s) = {}
                              THEN {AliasLookupRow(s, client[c].node)} ELSE {}]

\* what follows maybe_insert_alias_lookup on the insert shard s: the row is
\* inserted and prepared, or a live row of the key exists (reported as not
\* inserted or as IntegrityError) and its owner decides
InsertVerdict(c, s) ==
    IF LookupOn(s) = {}
    THEN [client[c] EXCEPT !.pc = "mirror", !.shard = s, !.state = "prepared",
                           !.ins = {AliasLookupRow(s, client[c].node)}]
    ELSE IF \E r \in LookupOn(s) : r.b = client[c].node
    THEN ClientEnd(c, "False", "none")
    ELSE ClientEnd(c, "none", "AliasInUse")

\* the public entry points set_alias(base_id) and remove_alias(base_id)
ClientStart(c) ==
    /\ client[c].pc = "idle"
    /\ epc # "idle"
    /\ \E o \in {"set_alias", "remove_alias"}, n \in Owners :
        client' = Put(c, [client[c] EXCEPT !.pc = "probe", !.op = o, !.node = n])
    /\ UNCHANGED <<cfg, live, live0, epc, tpcs, estate, ids, eres, faults>>
    /\ UNCHANGED <<planVars, sideVars>>

\* the select_alias_lookup loop over the read list
ClientProbe(c) ==
    LET \* every shard of the read list except the insert shard
        OtherShards == SelectSeq(cfg.aliasRead, LAMBDA s : s # cfg.aliasRead[1])
    IN
    /\ client[c].pc = "probe"
    /\ IF client[c].op = "set_alias"
       THEN LET found == FoundOn(OtherShards)
            IN client' = Put(c,
                IF found = <<>> THEN [client[c] EXCEPT !.pc = "first"]
                ELSE IF \E r \in LookupOn(found[1]) : r.b = client[c].node
                THEN ClientEnd(c, "False", "none")
                ELSE ClientEnd(c, "none", "AliasInUse"))
       ELSE LET found == FoundOn(cfg.aliasRead)
            IN client' = Put(c,
                IF found = <<>> THEN ClientEnd(c, "False", "none")
                ELSE IF \E r \in LookupOn(found[1]) : r.b # client[c].node
                THEN ClientEnd(c, "False", "none")
                ELSE [client[c] EXCEPT !.pc = "first", !.shard = found[1]])
    /\ UNCHANGED <<cfg, live, live0, epc, tpcs, estate, ids, eres, faults>>
    /\ UNCHANGED <<planVars, sideVars>>

\* the TwoPhaseCommit block: the lookup row is inserted (set_alias) or
\* tombstoned (remove_alias) and the transaction is prepared
ClientFirst(c) ==
    /\ client[c].pc = "first"
    /\ IF client[c].op = "set_alias"
       THEN LET s == cfg.aliasRead[1]
            IN /\ PendingInserts(c) = {}
               /\ client' = Put(c, InsertVerdict(c, s))
       ELSE LET hit == {r \in LookupOn(client[c].shard) : r.b = client[c].node}
            IN /\ hit \cap HeldFrom(c) = {}
               /\ client' = Put(c,
                    IF hit = {} THEN ClientEnd(c, "False", "none")
                    ELSE [client[c] EXCEPT !.pc = "mirror", !.state = "prepared",
                                           !.rem = hit])
    /\ UNCHANGED <<cfg, live, live0, epc, tpcs, estate, ids, eres, faults>>
    /\ UNCHANGED <<planVars, sideVars>>

\* an elsewhere() that lets the exception pass without the rollback
MirrorFailureKeepsPrepared(c, e) == ClientEnd(c, "none", e)

\* an exception under tpc.elsewhere(): the prepared transaction is rolled
\* back and an exception of the same class goes on to the caller
MirrorFailure(c, e) == [ClientEnd(c, "none", e) EXCEPT !.state = "rolledback"]

\* the mirror under tpc.elsewhere(): insert_alias or remove_alias on the
\* node's shard, committed when the scoped connection is released; a
\* falsy result rolls the prepared lookup change back
ClientMirror(c) ==
    /\ client[c].pc = "mirror"
    /\ LET row == AliasRow(cfg, client[c].node)
       IN IF client[c].op = "set_alias"
          THEN IF NodeRow(cfg, client[c].node) \in live /\ row \notin live
               THEN /\ live' = live \cup {row}
                    /\ client' = Put(c, [client[c] EXCEPT !.pc = "commit"])
               ELSE /\ client' = Put(c,
                            MirrorFailure(c, IF row \in live THEN "IntegrityError"
                                             ELSE "NoObject"))
                    /\ live' = live
          ELSE /\ row \notin HeldFrom(c)
               /\ IF row \in live
                  THEN /\ live' = live \ {row}
                       /\ client' = Put(c, [client[c] EXCEPT !.pc = "commit"])
                  ELSE /\ client' = Put(c, [ClientEnd(c, "False", "none")
                                               EXCEPT !.state = "rolledback"])
                       /\ live' = live
    /\ UNCHANGED <<cfg, live0, epc, tpcs, estate, ids, eres, faults>>
    /\ UNCHANGED <<planVars, sideVars>>

\* tpc.elsewhere() ends without failure: tpc.commit()
ClientCommit(c) ==
    /\ client[c].pc = "commit"
    /\ live' = (live \ client[c].rem) \cup client[c].ins
    /\ client' = Put(c, [ClientEnd(c, "True", "none") EXCEPT !.state = "committed"])
    /\ UNCHANGED <<cfg, live0, epc, tpcs, estate, ids, eres, faults>>
    /\ UNCHANGED <<planVars, sideVars>>

CallAlias == Call(AliasScenarios \cup NoAliasScenarios)

\* remove_node and one alias operation, under a driver that does not fail
InitAlias == InitEstate /\ faults = 0

\* remove_node with the first client beside it
SpecAlias ==
    /\ InitAlias
    /\ [][\/ CallAlias
          \/ RemoveEdge
          \/ LoopHead
          \/ Round
          \/ Final
          \/ RollbackAll
          \/ CommitAll
          \/ ClientStart(1)
          \/ ClientProbe(1)
          \/ ClientFirst(1)
          \/ ClientMirror(1)
          \/ ClientCommit(1)]_vars

\* one alias operation alone, also for a base_id without a node row
CallSetAlias ==
    LET \* no alias yet, and node n has no node row: the base object does not exist
        MissingNodeScenarios ==
            {[cfg |-> [PlainCfg(sh) EXCEPT !.aliasRead = ar],
              rows |-> ChainRows(PlainCfg(sh)) \ {NodeRow(PlainCfg(sh), n)}] :
                sh \in [Nodes -> Shards], ar \in ReadLists, n \in Owners}
    IN
                Call(AliasScenarios \cup NoAliasScenarios \cup MissingNodeScenarios)

SpecSetAlias ==
    /\ InitAlias
    /\ [][\/ CallSetAlias
          \/ ClientStart(1)
          \/ ClientProbe(1)
          \/ ClientFirst(1)
          \/ ClientMirror(1)
          \/ ClientCommit(1)]_vars

\* the alias operations of two clients, in any interleaving
SpecTwoAlias ==
    /\ InitAlias
    /\ [][\/ CallAlias
          \/ \E c \in Clients : ClientStart(c)
          \/ \E c \in Clients : ClientProbe(c)
          \/ \E c \in Clients : ClientFirst(c)
          \/ \E c \in Clients : ClientMirror(c)
          \/ \E c \in Clients : ClientCommit(c)]_vars

(***************************************************************************)
(* Properties of remove_node                                               *)
(***************************************************************************)
\* C7: when remove_node ends, its transactions are all committed
\* or all rolled back, never some committed and others rolled back or
\* left prepared
C7_AllOrNothing ==
    LET AllRolledBack == \A i \in DOMAIN tpcs : tpcs[i].state = "rolledback"
    IN
    LET AllCommitted == \A i \in DOMAIN tpcs : tpcs[i].state = "committed"
    IN
                   epc = "done" => AllCommitted \/ AllRolledBack

\* C8: remove_node terminates for every finite graph of edges
C8_Terminates == <>(epc = "done")

\* the nodes reachable from the removed node by the edges that were live
\* when remove_node was called
RECURSIVE ReachFrom(_)
ReachFrom(S) ==
    LET n == S \cup {r.o : r \in {e \in live0 : e.k = "edge" /\ e.b \in S}}
    IN IF n = S THEN S ELSE ReachFrom(n)

\* C9: after remove_node returned True no node, property, alias, name or
\* edge row of the node or of a node reachable from it is live
C9_NoLiveRows ==
    epc = "done" /\ eres.ret = "True" =>
        \A r \in live :
            r.k \in {"node", "prop", "alias", "name", "edge"} => r.b \notin ReachFrom({1})

\* remove_node returned True for a node with descendants on another shard
C9_Witness ==
    /\ epc = "done" /\ eres.ret = "True"
    /\ \E n \in ReachFrom({1}) : cfg.shardOf[n] # cfg.shardOf[1]
    /\ \E r \in live0 \ live : r.k = "alias" \/ r.k = "name"

\* C10: after remove_node returned True no lookup row of an alias or name
\* that was removed with a node is live on any shard
C10_NoLiveLookups ==
    epc = "done" /\ eres.ret = "True" =>
        \A r \in live0 \ live :
            r.k \in {"alias", "name"} =>
                ~\E l \in live :
                    /\ l.k \in {"alias_lookup", "prefix_lookup", "phonetic_lookup"}
                    /\ l.b = r.b /\ l.c = r.c /\ l.v = r.v

\* C11: after remove_node returned True no live relationship row has a
\* removed node as base_id or as rel_id
C11_NoLiveRels ==
    LET \* the nodes whose node row remove_node removed
        RemovedNodes == {r.b : r \in {x \in live0 \ live : x.k = "node"}}
    IN
    epc = "done" /\ eres.ret = "True" =>
        \A r \in live :
            r.k = "rel" => r.b \notin RemovedNodes /\ r.o \notin RemovedNodes

(***************************************************************************)
(* Properties of the alias operations beside remove_node                   *)
(***************************************************************************)
\* C5: once remove_node and the alias operation running beside it have
\* completed, the live alias rows and the live alias-lookup rows are in
\* one-to-one correspondence
C5_AliasBijection ==
    LET \* every alias row has exactly one lookup row, with the same base_id, and
        \* every lookup row exactly one alias row
        AliasBijection(rows) ==
            /\ \A a \in {r \in rows : r.k = "alias"} :
                LET ls == {l \in rows : l.k = "alias_lookup" /\ l.v = a.v /\ l.c = a.c}
                IN Cardinality(ls) = 1 /\ \A l \in ls : l.b = a.b
            /\ \A l \in {r \in rows : r.k = "alias_lookup"} :
                Cardinality({a \in rows : a.k = "alias" /\ a.v = l.v /\ a.c = l.c
                                            /\ a.b = l.b}) = 1
    IN
    epc = "done" /\ client[1].pc \in {"idle", "done"} => AliasBijection(live)

(***************************************************************************)
(* Properties of the alias operations                                      *)
(***************************************************************************)

\* the lookup rows of the alias that were live on a candidate shard when
\* the call began
OldLookups == {r \in live0 : r.k = "alias_lookup" /\ r.s \in Range(cfg.aliasRead)}

\* C15: set_alias returns true only when no live lookup existed on any
\* candidate shard and both rows were inserted; it returns false and
\* changes nothing when the alias is owned by the same base_id; it raises
\* AliasInUse and changes nothing when it is owned by another base_id,
\* whichever shard of the read list holds the lookup row.
C15_SetAlias ==
    client[1].pc = "done" /\ client[1].op = "set_alias" =>
        LET n == client[1].node
        IN /\ client[1].ret = "True" =>
                /\ OldLookups = {}
                /\ AliasRow(cfg, n) \in live \ live0
                /\ AliasLookupRow(cfg.aliasRead[1], n) \in live \ live0
           /\ (\E r \in OldLookups : r.b = n) =>
                client[1].ret = "False" /\ client[1].exc = "none" /\ live = live0
           /\ (\E r \in OldLookups : r.b # n) =>
                client[1].exc = "AliasInUse" /\ live = live0

\* set_alias met the lookup of another base_id on a candidate shard that
\* is not the insert shard
C15_Witness ==
    /\ client[1].pc = "done" /\ client[1].op = "set_alias"
    /\ client[1].exc = "AliasInUse"
    /\ \E r \in OldLookups : r.s # cfg.aliasRead[1] /\ r.b # client[1].node


\* the callers whose set_alias returned true
Winners == {c \in Clients : client[c].ret = "True"}

\* C16: two concurrent set_alias calls for the same alias and different
\* base_ids, in any interleaving: at most one returns true and the other
\* fails with AliasInUse; after both have finished exactly one live lookup
\* row and exactly one live alias row exist for the alias.
C16_OneWinner ==
    /\ \A c \in Clients : client[c].pc = "done" /\ client[c].op = "set_alias"
    /\ client[1].node # client[2].node
    => /\ Cardinality(Winners) <= 1
       /\ OldLookups = {} => Cardinality(Winners) = 1
       /\ \A c \in Winners : \A d \in Clients \ {c} : client[d].exc = "AliasInUse"
       /\ Cardinality({r \in live : r.k = "alias_lookup"}) = 1
       /\ Cardinality({r \in live : r.k = "alias"}) = 1

\* no lookup existed, the second caller won and the first was refused
C16_Witness ==
    /\ \A c \in Clients : client[c].pc = "done" /\ client[c].op = "set_alias"
    /\ client[1].node # client[2].node
    /\ OldLookups = {}
    /\ Winners = {2}
    /\ client[1].exc = "AliasInUse"


\* C17: set_alias for a base_id whose base object does not exist raises
\* NoObject, and the lookup row inserted and prepared on the insert shard
\* has been rolled back: no live lookup row and no alias row exist.
C17_NoObject ==
    /\ client[1].pc = "done" /\ client[1].op = "set_alias"
    /\ NodeRow(cfg, client[1].node) \notin live0
    /\ OldLookups = {}
    => /\ client[1].exc = "NoObject"
       /\ client[1].state = "rolledback"
       /\ {r \in live : r.k \in {"alias_lookup", "alias"}} = {}

\* the lookup insert of such a call had been prepared, on a read list of
\* two shards
C17_Witness ==
    /\ client[1].pc = "done" /\ client[1].op = "set_alias"
    /\ NodeRow(cfg, client[1].node) \notin live0
    /\ client[1].ins # {}
    /\ client[1].exc = "NoObject"
    /\ Len(cfg.aliasRead) = 2


\* C25: relationship.create on a union-typed relationship context, called
\* without the two endpoint contexts, raises MissingContext and creates no
\* row.
C25_UnionNeedsEndpoints ==
    api.pc = "done" /\ api.op = "create" /\ api.ctx = "union" /\ ~api.readonly =>
        api.exc = "MissingContext" /\ ~api.dbWork

(***************************************************************************)
(* The relationship plans over the rows they address                       *)
(***************************************************************************)
\* the key columns (base_id, rel_id, ctx, forward) a statement is given, on
\* the shard of its connection
RelKey(s, b, r, fwd, directed) ==
    Row("rel", s, b, IF directed THEN "rel" ELSE "undirected", IF fwd THEN 1 ELSE 0, r)

\* the row a plan's statement acts on: update_relationship and set_flags
\* match the key columns they are given; insert_relationship and
\* remove_relationship store and find the reverse half of an undirected
\* relationship as the forward row of the other id
Target(op, key) ==
    IF op \in {"create", "remove"} /\ key.c = "undirected" /\ key.v = 0
    THEN Row("rel", key.s, key.o, key.c, 1, key.b)
    ELSE key

\* the two rows of the relationship (b, r)
StoredPair(sh, directed, b, r) ==
    IF directed
    THEN {RelRow(sh[b], b, r, 1), RelRow(sh[r], b, r, 0)}
    ELSE {UndirectedRow(sh[b], b, r), UndirectedRow(sh[r], r, b)}

\* a mirror statement that is given forward = True
PairMirrorKeyForward(q) == RelKey(q.sh[q.r], q.b, q.r, TRUE, q.directed)

\* the mirror statement's key in create and remove, on rel_id's shard:
\* the ids as given and forward = False
PairMirrorKey(q) == RelKey(q.sh[q.r], q.b, q.r, FALSE, q.directed)

\* a mirror write without the branch on the context's direction
MirrorKeyNoSwap(q) == RelKey(q.sh[q.r], q.b, q.r, FALSE, q.directed)

\* the mirror statement's key, on rel_id's shard: update and set_flags swap
\* the ids and set forward for an undirected context
MirrorKey(q) ==
    IF q.op \in {"update", "set_flags"}
    THEN IF q.directed
         THEN RelKey(q.sh[q.r], q.b, q.r, FALSE, q.directed)
         ELSE RelKey(q.sh[q.r], q.r, q.b, TRUE, q.directed)
    ELSE PairMirrorKey(q)

\* what a plan returns when both statements changed a row, and when one
\* reports no row
RelResult(op, ok) ==
    IF ok THEN (IF op = "set_flags" THEN "flags" ELSE "True")
    ELSE (IF op \in {"create", "remove"} THEN "False" ELSE "None")

\* the deployment and the stored relationship, if any
RelSetup ==
    /\ relop.pc = "setup"
    /\ \E sh \in [1..2 -> Shards], d \in BOOLEAN, stored \in BOOLEAN :
        relop' = [relop EXCEPT !.pc = "idle", !.sh = sh, !.directed = d,
                               !.rows = IF stored THEN StoredPair(sh, d, 1, 2) ELSE {}]
    /\ UNCHANGED relRest

\* create_relationship_pair, update_relationship, set_relationship_flags or
\* remove_relationship_pair is called with the two ids in either order,
\* the first time or after an earlier call has returned
RelCall ==
    /\ relop.pc \in {"idle", "done"}
    /\ relop.calls < MaxOps
    /\ \E o \in {"create", "update", "set_flags", "remove"},
          a \in {<<1, 2>>, <<2, 1>>}, f \in BOOLEAN :
        /\ o # "update" => f
        /\ relop' = [relop EXCEPT !.pc = "first", !.op = o, !.b = a[1], !.r = a[2],
                                  !.fwd = f, !.rows0 = relop.rows, !.pend1 = {},
                                  !.pend2 = {}, !.second = {}, !.touched = {},
                                  !.failed = FALSE, !.ret = "none",
                                  !.calls = IF relop.pc = "done" THEN @ + 1 ELSE @]
    /\ UNCHANGED relRest

\* the block `with tpc as conn`: the first statement, then prepare or
\* (after tpc.fail() or IntegrityError) rollback
RelFirst ==
    /\ relop.pc = "first"
    /\ LET \* the first statement's key, on base_id's shard
           key == RelKey(relop.sh[relop.b], relop.b, relop.r,
                         IF relop.op = "update" THEN relop.fwd ELSE TRUE,
                         relop.directed)
           row == Target(relop.op, key)
           hit == IF relop.op = "create" THEN row \notin relop.rows
                  ELSE row \in relop.rows
       IN relop' = IF hit
                   THEN [relop EXCEPT !.pc = "mirror", !.pend1 = {row}]
                   ELSE [relop EXCEPT !.pc = "done", !.failed = TRUE,
                                      !.ret = RelResult(relop.op, FALSE)]
    /\ UNCHANGED relRest

\* the mirror statement under tpc.elsewhere(); a statement on a row the
\* prepared transaction changed waits for that transaction
RelMirror ==
    /\ relop.pc = "mirror"
    /\ LET row == Target(relop.op, MirrorKey(relop))
           hit == IF relop.op = "create" THEN row \notin relop.rows
                  ELSE row \in relop.rows
       IN /\ row \notin relop.pend1
          /\ relop' = IF hit
                      THEN [relop EXCEPT !.pc = "end", !.second = {row}, !.pend2 = {row}]
                      ELSE [relop EXCEPT !.pc = "end", !.second = {row}, !.failed = TRUE,
                                         !.ret = RelResult(relop.op, FALSE)]
    /\ UNCHANGED relRest

\* tpc.elsewhere() ends: both changes are committed, or both rolled back
RelEnd ==
    /\ relop.pc = "end"
    /\ LET both == relop.pend1 \cup relop.pend2
       IN relop' =
            IF relop.failed THEN [relop EXCEPT !.pc = "done"]
            ELSE [relop EXCEPT
                    !.pc = "done",
                    !.ret = RelResult(relop.op, TRUE),
                    !.rows = CASE relop.op = "create" -> @ \cup both
                               [] relop.op = "remove" -> @ \ both
                               [] OTHER -> @,
                    !.touched = IF relop.op \in {"update", "set_flags"}
                                THEN both ELSE {},
                    !.created = @ \/ relop.op = "create"]
    /\ UNCHANGED relRest

SpecRel ==
    /\ InitNoFault
    /\ [][\/ RelSetup
          \/ RelCall
          \/ RelFirst
          \/ RelMirror
          \/ RelEnd]_vars

\* C21: in update_relationship and set_relationship_flags the mirror write
\* on rel_id's shard addresses the row (base_id, rel_id, forward = false)
\* under a directed context and the row (rel_id, base_id, forward = true)
\* under an undirected one; so a stored relationship has both its rows
\* written.
C21_MirrorRow ==
    relop.pc = "done" /\ relop.op \in {"update", "set_flags"} =>
        LET b == relop.b
            r == relop.r
        IN /\ relop.second # {} =>
                relop.second = {IF relop.directed
                                THEN RelRow(relop.sh[r], b, r, 0)
                                ELSE UndirectedRow(relop.sh[r], r, b)}
           /\ StoredPair(relop.sh, relop.directed, b, r) \subseteq relop.rows0 /\ relop.fwd =>
                /\ relop.ret = RelResult(relop.op, TRUE)
                /\ relop.touched = StoredPair(relop.sh, relop.directed, b, r)

\* set_relationship_flags wrote both rows of an undirected relationship
\* whose ends are on different shards, called from the second end
C21_Witness ==
    /\ relop.pc = "done" /\ relop.op = "set_flags"
    /\ ~relop.directed
    /\ relop.sh[1] # relop.sh[2]
    /\ relop.b = 2
    /\ relop.ret = "flags"
    /\ relop.touched = {UndirectedRow(relop.sh[2], 2, 1), UndirectedRow(relop.sh[1], 1, 2)}


Moved == 0

\* the list of a parent's children holds x
Has(q, x) == \E i \in DOMAIN q : q[i] = x

\* an insert that reports no row is followed by a plain return
MoveMissKeeps(same) == [rollback |-> FALSE, ret |-> "False"]

\* when insert_edge reports no row: conn.rollback() in the local
\* transaction, tpc.fail() in the two-phase plan, then return False
MoveMiss(same) == [rollback |-> TRUE, ret |-> "False"]

\* move_node(node_id, ctx, base_id, new_base_id, index) is called on two
\* parents whose children are ordered lists of distinct nodes
MvCall ==
    /\ mv.pc = "idle"
    /\ LET Lists(S) ==
            {q \in UNION {[1..n -> S] : n \in 0..Cardinality(S)} :
                \A i \in DOMAIN q, j \in DOMAIN q : i # j => q[i] # q[j]}
       IN \E s \in Lists((1..MaxKids) \cup {Moved}), d \in Lists(1..MaxKids),
             sm \in BOOLEAN, par \in BOOLEAN, i \in {NoIndex} \cup (0..MaxKids) :
            mv' = [mv EXCEPT !.pc = "remove", !.same = sm, !.idx = i, !.parent = par,
                             !.src = s, !.dst = d, !.src0 = s, !.dst0 = d]
    /\ UNCHANGED mvRest

\* the transaction ends without its changes
MoveRollback(q, r, e) ==
    [q EXCEPT !.pc = "done", !.xact = "rolledback", !.ret = r, !.exc = e]

\* query.remove_edge on base_id's shard changes the row (it is tombstoned
\* and the positions after it close up), reports no row, or raises (a
\* statement cancelled by the timeout); in the two-phase plan the block
\* ends with tpc_prepare and conn.reset(), which the timer can still cancel
MvRemove ==
    /\ mv.pc = "remove"
    /\ \E o \in {IF Has(mv.src, Moved) THEN "ok" ELSE "miss", "raise"} :
        mv' = CASE o = "miss" -> MoveRollback(mv, "False", "none")
                [] o = "raise" -> MoveRollback(mv, "none", "Timeout")
                [] OTHER -> [mv EXCEPT !.pc = IF mv.same THEN "insert" ELSE "prepared",
                                       !.xact = IF mv.same THEN "open" ELSE "prepared",
                                       !.psrc = SelectSeq(mv.src, LAMBDA y : y # Moved)]
    /\ UNCHANGED mvRest

\* the block's exit in the two-phase plan: a cancel during conn.reset()
\* leaves the block with the transaction prepared
MvPrepared ==
    /\ mv.pc = "prepared"
    /\ \/ mv' = [mv EXCEPT !.pc = "insert"]
       \/ mv' = [mv EXCEPT !.pc = "done", !.exc = "Timeout"]
    /\ UNCHANGED mvRest

\* query.insert_edge on new_base_id's shard: in the same local transaction,
\* or under tpc.elsewhere() on a scoped connection.  It is given the index
\* in the local transaction and None in the two-phase plan, and inserts at
\* that position (from 0), at the end for None or an index past the end.
MvInsert ==
    /\ mv.pc = "insert"
    /\ \E o \in {IF mv.parent THEN "ok" ELSE "miss", "raise"} :
        LET index == IF mv.same THEN mv.idx ELSE NoIndex
            inserted ==
                IF index = NoIndex \/ index >= Len(mv.dst) THEN Append(mv.dst, Moved)
                ELSE SubSeq(mv.dst, 1, index) \o <<Moved>>
                        \o SubSeq(mv.dst, index + 1, Len(mv.dst))
        IN
        mv' = CASE o = "miss" ->
                    IF MoveMiss(mv.same).rollback
                    THEN MoveRollback(mv, MoveMiss(mv.same).ret, "none")
                    ELSE [mv EXCEPT !.pc = "done", !.xact = "committed",
                                    !.src = mv.psrc, !.ret = MoveMiss(mv.same).ret]
                [] o = "raise" -> MoveRollback(mv, "none", "Timeout")
                [] OTHER ->
                    [mv EXCEPT !.pc = "end", !.pdst = inserted]
    /\ UNCHANGED mvRest

\* the scoped connection commits (and tpc.commit() follows in the
\* two-phase plan); move_node returns True
MvEnd ==
    /\ mv.pc = "end"
    /\ mv' = [mv EXCEPT !.pc = "done", !.xact = "committed", !.src = mv.psrc,
                        !.dst = mv.pdst, !.ret = "True"]
    /\ UNCHANGED mvRest

SpecMove ==
    /\ InitNoFault
    /\ [][\/ MvCall
          \/ MvRemove
          \/ MvPrepared
          \/ MvInsert
          \/ MvEnd]_vars

\* C23: after move_node returns or raises the node has exactly one live
\* edge: to the new parent if the call returned true, to the old parent
\* otherwise; never none and never both, in the local transaction and in
\* the two-phase plan.
C23_OneParent ==
    mv.pc = "done" /\ Has(mv.src0, Moved) =>
        IF mv.ret = "True"
        THEN ~Has(mv.src, Moved) /\ Has(mv.dst, Moved)
        ELSE Has(mv.src, Moved) /\ ~Has(mv.dst, Moved)

\* the new parent did not exist: the removal of the old edge was undone,
\* in the local transaction
C23_Witness ==
    /\ mv.pc = "done" /\ Has(mv.src0, Moved)
    /\ mv.same /\ ~mv.parent
    /\ mv.ret = "False"
    /\ mv.xact = "rolledback"
    /\ mv.src = mv.src0

\* C24: a successful move_node(node_id, ctx, base_id, new_base_id, index)
\* places the node at position index of the new parent's list, whether
\* the two parents share a shard or not.
C24_MovedToIndex ==
    mv.pc = "done" /\ mv.ret = "True" /\ mv.idx # NoIndex /\ mv.idx <= Len(mv.dst0) =>
        mv.dst[mv.idx + 1] = Moved

(***************************************************************************)
(* The context registry (datahog/const/context.py)                         *)
(***************************************************************************)
\* the context values that are keys of META
Registered(META) == {v \in 1..MaxCtx : META[v].tbl # "none"}

\* what set_context raises, "none" when it registers the context
SetContextRaises(value, tbl, base, rel, extra, META) ==
    LET \* the test of one related context: `meta[ctxkey] not in META`
        \* hashes the value, which a set does not allow
        RelatedCheck(e) ==
            CASE e.kind = "absent" -> "none"
              [] e.kind = "one" ->
                    IF e.s \subseteq Registered(META) THEN "none" ELSE "ValueError"
              [] OTHER -> "TypeError"
    IN IF value \in Registered(META) THEN "ValueError"
       ELSE IF tbl = "unknown" THEN "ValueError"
       ELSE IF RelatedCheck(base) # "none" THEN RelatedCheck(base)
       ELSE IF RelatedCheck(rel) # "none" THEN RelatedCheck(rel)
       ELSE IF extra = "bad_storage" THEN "ValueError"
       ELSE IF extra = "phonetic" THEN "Exception"
       ELSE "none"

\* set_context(value, tbl, meta) is called and runs to its end: it raises,
\* or stores (tbl, meta) under value.  tbl is a table of
\* datahog.const.table or a value that is none of them; base_ctx and rel_ctx
\* are absent, one context value, or a set of context values; the other
\* keys of meta do nothing, or hold an unrecognized storage class, or
\* search.PHONETIC; rel_ctx is given for the relationship table only
set_context ==
    /\ reg.calls < MaxOps
    /\ \E value \in 1..MaxCtx, tbl \in {"node", "relationship", "unknown"},
          base, rel \in {Absent}
                          \cup {[kind |-> "one", s |-> {v}] : v \in 1..MaxCtx}
                          \cup {[kind |-> "set", s |-> S] :
                                    S \in (SUBSET (1..MaxCtx)) \ {{}}},
          extra \in {"none", "bad_storage", "phonetic"} :
        /\ tbl # "relationship" => rel = Absent
        /\ LET e == SetContextRaises(value, tbl, base, rel, extra, reg.META)
           IN reg' = [pc |-> "done", calls |-> reg.calls + 1, value |-> value,
                      tbl |-> tbl, base |-> base,
                      rel |-> rel, extra |-> extra, before |-> reg.META, exc |-> e,
                      META |-> IF e # "none" THEN reg.META
                               ELSE [reg.META EXCEPT ![value] =
                                       [tbl |-> tbl, base |-> base, rel |-> rel]]]
    /\ UNCHANGED <<planVars, dataVars, faults, api, relop, mv, srch, codec, prop, phon>>

SpecReg == InitNoFault /\ [][set_context]_vars

\* C26: set_context registers a relationship context whose base_ctx and
\* rel_ctx are sets of registered contexts, and a call with a value that is
\* already registered raises and leaves the registry as it was.
C26_UnionRegisters ==
    reg.pc = "done" =>
        /\ reg.value \in Registered(reg.before) =>
               reg.exc # "none" /\ reg.META = reg.before
        /\ ( /\ reg.value \notin Registered(reg.before)
             /\ reg.tbl = "relationship"
             /\ reg.base.kind = "set" /\ reg.base.s \subseteq Registered(reg.before)
             /\ reg.rel.kind = "set" /\ reg.rel.s \subseteq Registered(reg.before)
             /\ reg.extra = "none" ) =>
               reg.exc = "none" /\ reg.META[reg.value].tbl = "relationship"

(***************************************************************************)
(* search_names over the lookup rows of the shards it probes               *)
(***************************************************************************)
\* results[:limit]
Take(q, limit) == SubSeq(q, 1, IF Len(q) < limit THEN Len(q) ELSE limit)

\* the loop over the n shards of a key: each shard's answer to
\* query.search_prefixes or query.search_phonetics (its rows of the key
\* after start, in ascending order, limit of them at most) is appended.
\* Name k belongs to node k and has the value k.
Fetched(store, n, code, limit, start) ==
    LET RECURSIVE Ascending(_)
        Ascending(S) ==
            IF S = {} THEN <<>>
            ELSE LET m == CHOOSE x \in S : \A y \in S : x <= y
                 IN <<m>> \o Ascending(S \ {m})
        Answer(S) ==
            LET ns == Take(Ascending({k \in S : k > start}), limit)
            IN [i \in 1..Len(ns) |->
                    [base_id |-> ns[i], code |-> code, value |-> ns[i]]]
        RECURSIVE Upto(_)
        Upto(p) == IF p = 0 THEN <<>> ELSE Upto(p - 1) \o Answer(store[p])
    IN Upto(n)

\* list.sort(key = ...), a stable sort: by value for a prefix search, by
\* _sortkey for a phonetic one
Sorted(q, sclass) ==
    LET \* base_id & ((1 << (64 - shardbits)) - 1): the part of an id under
        \* its shard bits, two ids to a shard
        LocalId(id) == id % 2
        Leq(a, b) ==
            IF sclass = "prefix" THEN a.value <= b.value
            ELSE \/ LocalId(a.base_id) < LocalId(b.base_id)
                 \/ /\ LocalId(a.base_id) = LocalId(b.base_id)
                    /\ a.base_id <= b.base_id
        RECURSIVE Upto(_)
        Upto(n) ==
            IF n = 0 THEN <<>>
            ELSE LET done == Upto(n - 1)
                     at == IF \A i \in 1..Len(done) : Leq(done[i], q[n])
                           THEN Len(done)
                           ELSE (CHOOSE i \in 1..Len(done) :
                                    /\ ~Leq(done[i], q[n])
                                    /\ \A j \in 1..(i - 1) : Leq(done[j], q[n])) - 1
                 IN SubSeq(done, 1, at) \o <<q[n]>> \o SubSeq(done, at + 1, Len(done))
    IN Upto(Len(q))

\* _phontoken: each code maps to the base_id of the last row that has it,
\* 0 standing for a code that is not a key of the token
Phontoken(q) ==
    [c \in {"dm", "dmalt"} |->
        LET at == {i \in 1..Len(q) : q[i].code = c}
        IN IF at = {} THEN 0
           ELSE q[CHOOSE i \in at : \A j \in at : j <= i].base_id]

\* search_names on a PREFIX ctx runs to its end over the rows that the n
\* shards of pool.shards_for_lookup_prefix() hold: several shards are
\* sorted and cut, and the token is the value of the last row
SearchPrefix ==
    /\ srch.pc = "idle"
    /\ \E store \in [1..MaxProbe -> SUBSET (1..MaxId)], n \in 1..MaxProbe,
          limit \in 1..MaxLimit, start \in 0..1 :
        /\ \A p \in 1..MaxProbe : p > n => store[p] = {}
        /\ LET fetched == Fetched(store, n, "prefix", limit, start)
               names == IF n > 1 THEN Take(Sorted(fetched, "prefix"), limit)
                        ELSE fetched
           IN srch' = [pc |-> "done", sclass |-> "prefix", shards |-> n,
                       limit |-> limit, loose |-> FALSE, alt |-> FALSE,
                       fetched |-> fetched, results |-> names,
                       token |-> Phontoken(<<>>),
                       last |-> IF names = <<>> THEN 0 ELSE names[Len(names)].value,
                       exc |-> IF names = <<>> THEN "IndexError" ELSE "none"]
    /\ UNCHANGED <<planVars, dataVars, faults, api, relop, mv, reg, codec, prop, phon>>

\* search_names on a PHONETIC ctx runs to its end: after the shards of dm
\* it returns what it has, unless the value has an alternate code and the
\* ctx is loose: then the shards of dmalt are read too and the results are
\* sorted, the token taken, duplicates of (base_id, ctx, value) dropped and
\* the list cut
SearchPhonetic ==
    /\ srch.pc = "idle"
    /\ \E store \in [{"dm", "dmalt"} -> [1..MaxProbe -> SUBSET (1..MaxId)]],
          n \in 1..MaxProbe, limit \in 1..MaxLimit, start \in 0..1,
          loose \in BOOLEAN, alt \in BOOLEAN :
        /\ \A p \in 1..MaxProbe : p > n => store["dm"][p] = {} /\ store["dmalt"][p] = {}
        /\ ~alt => \A p \in 1..MaxProbe : store["dmalt"][p] = {}
        /\ LET first == Fetched(store["dm"], n, "dm", limit, start)
               both == first \o Fetched(store["dmalt"], n, "dmalt", limit, start)
               sorted == Sorted(both, "phonetic")
               Dedup(q) ==
                   LET RECURSIVE Pick(_)
                       Pick(i) ==
                           IF i > Len(q) THEN <<>>
                           ELSE (IF \A j \in 1..(i - 1) :
                                        <<q[j].base_id, q[j].value>>
                                            # <<q[i].base_id, q[i].value>>
                                 THEN <<q[i]>> ELSE <<>>) \o Pick(i + 1)
                   IN Pick(1)
               early == ~alt \/ ~loose
           IN srch' = [pc |-> "done", sclass |-> "phonetic", shards |-> n,
                       limit |-> limit, loose |-> loose, alt |-> alt,
                       fetched |-> IF early THEN first ELSE both,
                       results |-> IF early THEN first
                                   ELSE Take(Dedup(sorted), limit),
                       token |-> Phontoken(IF early THEN first ELSE sorted),
                       last |-> 0, exc |-> "none"]
    /\ UNCHANGED <<planVars, dataVars, faults, api, relop, mv, reg, codec, prop, phon>>

SpecSearch == InitNoFault /\ [][SearchPrefix \/ SearchPhonetic]_vars

\* C27: search_names never returns more than limit rows, whatever the
\* search class, the number of shards probed and the alternate code.
C27_AtMostLimit ==
    srch.pc = "done" /\ srch.exc = "none" => Len(srch.results) <= srch.limit

\* C28: the token of a phonetic search maps each code to the largest
\* base_id among the rows that were returned for it, and names no base_id
\* of a row that was fetched and not returned.
C28_TokenOfReturned ==
    srch.pc = "done" /\ srch.sclass = "phonetic" =>
        \A c \in {"dm", "dmalt"} :
            LET Returned == {i \in 1..Len(srch.results) : srch.results[i].code = c}
            IN IF Returned = {} THEN srch.token[c] = 0
               ELSE /\ \E i \in Returned : srch.results[i].base_id = srch.token[c]
                    /\ \A i \in Returned : srch.results[i].base_id <= srch.token[c]

\* C40: a PREFIX search for which no probed shard returns a row ends
\* without an exception, with the empty list of results
C40_EmptyPrefixSearch ==
    srch.pc = "done" /\ srch.sclass = "prefix" /\ srch.fetched = <<>> =>
        srch.exc = "none" /\ srch.results = <<>>

(***************************************************************************)
(* The flag codec and the storage functions (datahog/const/util.py)        *)
(***************************************************************************)
\* num & (1 << k) is not 0
BitSet(num, k) == (num \div (2 ^ k)) % 2 = 1

\* the bit of flag i: 1 << (i - 1)
FlagBitUnshifted(i) == 2 ^ i
FlagBit(i) == 2 ^ (i - 1)

\* flags_to_int: the bitmap, or the BadFlag of the first flag of the list
\* that is not registered for the ctx
flags_to_int(ctxOk, meta, flag_list) ==
    LET RECURSIVE From(_, _)
        From(k, num) ==
            IF k > Len(flag_list) THEN [exc |-> "none", num |-> num]
            ELSE IF flag_list[k] \notin meta THEN [exc |-> "BadFlag", num |-> 0]
            ELSE LET bit == FlagBit(flag_list[k])
                 IN From(k + 1, IF (num \div bit) % 2 = 1 THEN num ELSE num + bit)
    IN IF ~ctxOk THEN [exc |-> "BadContext", num |-> 0] ELSE From(1, 0)

\* int_to_flags: in its loop the lowest bit stands for flag i
int_to_flags(ctxOk, meta, flag_num) ==
    LET RECURSIVE From(_, _)
        From(num, i) ==
            IF num = 0 THEN {}
            ELSE (IF num % 2 = 1 /\ i \in meta THEN {i} ELSE {})
                    \cup From(num \div 2, i + 1)
    IN IF ~ctxOk THEN [exc |-> "BadContext", flags |-> {}]
       ELSE [exc |-> "none", flags |-> From(flag_num, 1)]

\* a caller encodes a flag list under a ctx that has the flags of meta
\* registered, and decodes the bitmap it got
FlagsCodec ==
    /\ codec.pc = "idle"
    /\ \E ok \in BOOLEAN, meta \in SUBSET (1..MaxBit),
          l \in UNION {[1..n -> 1..MaxBit] : n \in 0..MaxList} :
        LET r == flags_to_int(ok, meta, l)
            d == int_to_flags(ok, meta, r.num)
        IN codec' = [CodecIdle EXCEPT
                        !.pc = "done", !.op = "flags", !.ctxOk = ok, !.meta = meta,
                        !.list = l, !.num = r.num, !.exc = r.exc,
                        !.flags = IF r.exc = "none" THEN d.flags ELSE {}]
    /\ UNCHANGED <<planVars, dataVars, faults, api, relop, mv, reg, srch, prop, phon>>

\* a caller decodes the bitmap that a row holds
IntDecode ==
    /\ codec.pc = "idle"
    /\ \E ok \in BOOLEAN, meta \in SUBSET (1..MaxBit), n \in 0..(2 ^ MaxBit - 1) :
        LET d == int_to_flags(ok, meta, n)
        IN codec' = [CodecIdle EXCEPT
                        !.pc = "done", !.op = "int", !.ctxOk = ok, !.meta = meta,
                        !.num = n, !.exc = d.exc, !.flags = d.flags]
    /\ UNCHANGED <<planVars, dataVars, faults, api, relop, mv, reg, srch, prop, phon>>

\* what a storage function does: it raises e, or returns a value
Out(e, value) == [exc |-> e, value |-> value]

\* storage_wrap under the storage class ctx_storage(ctx) returns, "none"
\* for a ctx without one.  A message fits the schema of its ctx, an object
\* is serializable, an opaque value is not.
storage_wrap(st, schema, value) ==
    CASE st = "NULL" ->
            IF value # PyNone THEN Out("StorageClassError", PyNone)
            ELSE Out("none", PyNone)
      [] st = "INT" ->
            IF value.type # "int" THEN Out("StorageClassError", PyNone)
            ELSE Out("none", value)
      [] st = "STR" ->
            IF value.type # "str" THEN Out("StorageClassError", PyNone)
            ELSE Out("none", value)
      [] st = "UTF" ->
            \* value.encode("utf8")
            IF value.type # "unicode" THEN Out("StorageClassError", PyNone)
            ELSE Out("none", Val("str", value.v, "utf8", "unicode"))
      [] st = "SERIAL" ->
            \* schema(value).dumps(), or mummy.dumps(value)
            IF schema
            THEN IF value.type # "msg" THEN Out("StorageClassError", PyNone)
                 ELSE Out("none", Val("str", value.v, "schema", value.type))
            ELSE IF value.type = "opaque" THEN Out("StorageClassError", PyNone)
                 ELSE Out("none", Val("str", value.v, "mummy", value.type))
      [] OTHER -> Out("BadContext", PyNone)

\* the outcomes of storage_unwrap.  `st.decode("utf8")` is called on the
\* constant storage.UTF: the constant has no such method, or the constant
\* itself is decoded.
storage_unwrap(st, schema, value) ==
    LET MummyLoads(y) ==
            Val(y.of, y.v, IF y.enc = "schema" THEN "transformed" ELSE "raw", y.of)
        Untransform(z) == Val(z.type, z.v, "raw", z.of)
    IN CASE st = "none" -> {Out("BadContext", PyNone)}
         [] st = "UTF" -> {Out("AttributeError", PyNone),
                           Out("none", Val("unicode", 0, "const", "unicode"))}
         [] st = "SERIAL" ->
               IF schema THEN {Out("none", Untransform(MummyLoads(value)))}
               ELSE {Out("none", MummyLoads(value))}
         [] OTHER -> {Out("none", value)}

\* a caller stores a value under a ctx of some storage class and reads the
\* stored form back
StorageCodec ==
    /\ codec.pc = "idle"
    /\ \E st \in {"none", "NULL", "INT", "STR", "UTF", "SERIAL"}, schema \in BOOLEAN,
          value \in {PyNone} \cup
                    {Val(t, v, "raw", t) :
                        t \in {"int", "str", "unicode", "msg", "obj", "opaque"},
                        v \in 0..MaxVal} :
        /\ schema => st = "SERIAL"
        /\ LET w == storage_wrap(st, schema, value)
           IN \E u \in IF w.exc = "none" THEN storage_unwrap(st, schema, w.value)
                       ELSE {w} :
                codec' = [CodecIdle EXCEPT
                            !.pc = "done", !.op = "storage", !.st = st,
                            !.schema = schema, !.value = value,
                            !.wrapped = w.value, !.back = u.value, !.exc = u.exc]
    /\ UNCHANGED <<planVars, dataVars, faults, api, relop, mv, reg, srch, prop, phon>>

SpecCodec == InitNoFault /\ [][FlagsCodec \/ IntDecode \/ StorageCodec]_vars

\* C29: under a registered ctx, a list of registered flags encodes to the
\* bitmap with exactly the bits i-1 of its flags and decodes back to the
\* set of its flags; a list with an unregistered flag raises BadFlag and
\* yields no bitmap; decoding drops the bits whose flag is not registered.
C29_FlagRoundTrip ==
    LET FlagsListed == {codec.list[k] : k \in 1..Len(codec.list)}
    IN codec.pc = "done" /\ codec.ctxOk =>
        /\ codec.op = "flags" /\ FlagsListed \subseteq codec.meta =>
              /\ codec.exc = "none"
              /\ \A i \in 1..MaxBit : BitSet(codec.num, i - 1) <=> i \in FlagsListed
              /\ codec.num < 2 ^ MaxBit
              /\ codec.flags = FlagsListed
        /\ codec.op = "flags" /\ ~(FlagsListed \subseteq codec.meta) =>
              codec.exc = "BadFlag" /\ codec.num = 0 /\ codec.flags = {}
        /\ codec.op = "int" =>
              /\ codec.exc = "none"
              /\ codec.flags = {i \in codec.meta : BitSet(codec.num, i - 1)}

\* a list of two registered flags, under a ctx that has a further flag
\* registered, went through both functions
C29_Witness ==
    /\ codec.pc = "done" /\ codec.op = "flags" /\ codec.ctxOk
    /\ codec.exc = "none"
    /\ Cardinality({codec.list[k] : k \in 1..Len(codec.list)}) = 2
    /\ Cardinality(codec.meta) = 3
    /\ Cardinality(codec.flags) = 2

\* C30: under each of the storage classes NULL, INT, STR, UTF8 and SERIAL a
\* valid value comes back unchanged from storage_unwrap(storage_wrap(v)),
\* and storage_wrap raises StorageClassError for a value that does not
\* satisfy the class.
C30_StorageRoundTrip ==
    LET Valid ==
            CASE codec.st = "NULL" -> codec.value = PyNone
              [] codec.st = "INT" -> codec.value.type = "int"
              [] codec.st = "STR" -> codec.value.type = "str"
              [] codec.st = "UTF" -> codec.value.type = "unicode"
              [] codec.st = "SERIAL" ->
                    IF codec.schema THEN codec.value.type = "msg"
                    ELSE codec.value.type # "opaque"
              [] OTHER -> FALSE
    IN codec.pc = "done" /\ codec.op = "storage" /\ codec.st # "none" =>
        IF Valid THEN codec.exc = "none" /\ codec.back = codec.value
        ELSE codec.exc = "StorageClassError"

(***************************************************************************)
(* set_property over the property rows of the connection's shard          *)
(***************************************************************************)
\* query.upsert_property, one statement: nothing without a live node
\* (existencequery), an update of the live row of (base_id, ctx) if there is
\* one, else an insert; it reports (inserted, updated)
upsert_property(rows, exists, b, v) ==
    LET old == {r \in rows : r.b = b}
    IN IF ~exists THEN [rows |-> rows, ret |-> [inserted |-> FALSE, updated |-> FALSE]]
       ELSE IF old # {}
       THEN [rows |-> (rows \ old) \cup {[b |-> b, v |-> v]},
             ret |-> [inserted |-> FALSE, updated |-> TRUE]]
       ELSE [rows |-> rows \cup {[b |-> b, v |-> v]},
             ret |-> [inserted |-> TRUE, updated |-> FALSE]]

\* the unique violation is left to propagate
RaceBackupRaises(updated) ==
    [ret |-> [inserted |-> FALSE, updated |-> FALSE], exc |-> "IntegrityError",
     log |-> <<"upsert_failed">>]

\* `except psycopg2.IntegrityError`: conn.rollback(), query.update_property,
\* return False, bool(updated)
RaceBackup(updated) ==
    [ret |-> [inserted |-> FALSE, updated |-> updated], exc |-> "none",
     log |-> <<"upsert_failed", "rollback", "update">>]

\* set_property(conn, base_id, ctx, value, flags). A concurrent insert of the
\* same key (value w) may commit between the statement's look at the table
\* and its own insert (raced); that row may be removed again before the
\* update runs (gone)
set_property ==
    /\ prop.calls < MaxOps
    /\ \E b \in Estate, v \in 0..MaxVal, w \in 0..MaxVal, raced \in BOOLEAN,
          gone \in BOOLEAN, exists \in BOOLEAN :
        LET has == \E r \in prop.rows : r.b = b
            up == upsert_property(prop.rows, exists, b, v)
            \* the table the statement after the violation runs on
            table == IF gone THEN prop.rows ELSE prop.rows \cup {[b |-> b, v |-> w]}
            \* query.update_property: the live row of (base_id, ctx) takes the
            \* value; the row count is returned
            hit == {r \in table : r.b = b}
            back == RaceBackup(hit # {})
        IN  /\ has => exists
            /\ raced => exists /\ ~has
            /\ ~raced => ~gone /\ w = 0
            /\ prop' = IF raced
                       THEN [prop EXCEPT !.calls = @ + 1, !.base = b, !.value = v,
                                         !.raced = TRUE, !.gone = gone,
                                         !.rows = IF back.exc = "none" /\ hit # {}
                                                  THEN (table \ hit) \cup {[b |-> b, v |-> v]}
                                                  ELSE table,
                                         !.log = back.log, !.exc = back.exc,
                                         !.ret = back.ret]
                       ELSE [prop EXCEPT !.calls = @ + 1, !.base = b, !.value = v,
                                         !.raced = FALSE, !.gone = FALSE,
                                         !.rows = up.rows, !.log = <<"upsert">>,
                                         !.exc = "none", !.ret = up.ret]
    /\ UNCHANGED <<planVars, dataVars, faults, api, relop, mv, reg, srch, codec, phon>>

SpecProp == InitNoFault /\ [][set_property]_vars

\* C31: when set_property's upsert meets a unique violation, the
\* connection's transaction is rolled back, a plain update is issued and the
\* call returns (False, updated), updated telling whether the update touched
\* a row; the violation is not raised
C31_RaceBackup ==
    prop.calls > 0 /\ prop.raced =>
        /\ prop.exc = "none"
        /\ prop.log = <<"upsert_failed", "rollback", "update">>
        /\ prop.ret = [inserted |-> FALSE, updated |-> ~prop.gone]
        /\ ~prop.gone => [b |-> prop.base, v |-> prop.value] \in prop.rows

\* the upsert lost the race and the update touched the winner's row
C31_Witness ==
    /\ prop.calls > 0 /\ prop.raced /\ ~prop.gone
    /\ prop.ret = [inserted |-> FALSE, updated |-> TRUE]
    /\ [b |-> prop.base, v |-> prop.value] \in prop.rows

(***************************************************************************)
(* A PHONETIC name and its lookup rows                                     *)
(***************************************************************************)
\* _find_phonetic_lookup_shards: the candidate shards of dm are probed for
\* the primary lookup (for-else: None when no shard has it). The test that
\* ends the search there reads `not util.ctx_phonetic_loose`, the function
\* itself and not its value for ctx: a function object is true, so the test
\* is `dmalt is None` and the candidate shards of every non-null dmalt are
\* probed as well, None being returned when no shard has that row
find_phonetic_lookup_shards(dm, dma, alt, loose) ==
    LET ctx_phonetic_loose_object == TRUE
    IN IF dm.shard = None THEN NotLocated
       ELSE IF ~alt \/ ~ctx_phonetic_loose_object
       THEN [ok |-> TRUE, dm |-> dm.shard, dma |-> None]
       ELSE IF dma.shard = None THEN NotLocated
       ELSE [ok |-> TRUE, dm |-> dm.shard, dma |-> dma.shard]

\* _create_name with _write_phonetic_lookups: the name row, the primary
\* lookup on the write shard of dm and, for a non-null dmalt under a loose
\* ctx, the secondary lookup on the write shard of dmalt
create_name ==
    /\ phon.calls <= MaxOps /\ ~phon.name.exists
    /\ \E loose \in BOOLEAN, alt \in BOOLEAN, nflags \in SUBSET (1..MaxFlag),
          shard1 \in Shards, shard2 \in Shards :
        phon' = [phon EXCEPT !.calls = @ + 1, !.op = "create_name",
                             !.loose = loose, !.alt = alt, !.had = FALSE,
                             !.name = [exists |-> TRUE, flags |-> nflags],
                             !.dm = [shard |-> shard1, flags |-> nflags],
                             !.dma = IF ~alt \/ ~loose THEN NoLookup
                                     ELSE [shard |-> shard2, flags |-> nflags],
                             !.found = NotLocated, !.add = {}, !.clear = {},
                             !.res = {}, !.ret = "True", !.exc = "none"]
    /\ UNCHANGED <<planVars, dataVars, faults, api, relop, mv, reg, srch, codec, prop>>

\* _set_name_flags with _apply_flags_to_phonetic_lookups: null when the
\* lookups are not located or the name row is missing; else the name row's
\* flags change, then the located lookups', and the new bitmap is returned
set_name_flags ==
    /\ phon.calls <= MaxOps /\ phon.op # "none"
    /\ \E add \in SUBSET (1..MaxFlag), clear \in SUBSET (1..MaxFlag) :
        LET lookup_shard == find_phonetic_lookup_shards(phon.dm, phon.dma,
                                                        phon.alt, phon.loose)
            result == SetFlags(phon.name, add, clear)
            done == lookup_shard.ok /\ result.found
        IN phon' = [phon EXCEPT !.calls = @ + 1, !.op = "set_name_flags",
                                !.had = phon.name.exists,
                                !.found = lookup_shard,
                                !.add = add, !.clear = clear,
                                !.res = IF done THEN result.flags ELSE {},
                                !.name = IF done THEN [@ EXCEPT !.flags = result.flags]
                                         ELSE @,
                                !.dm = IF done THEN [@ EXCEPT !.flags = result.flags]
                                       ELSE @,
                                !.dma = IF done /\ lookup_shard.dma # None
                                        THEN [@ EXCEPT !.flags = result.flags]
                                        ELSE @,
                                !.ret = IF done THEN "flags" ELSE "None",
                                !.exc = "none"]
    /\ UNCHANGED <<planVars, dataVars, faults, api, relop, mv, reg, srch, codec, prop>>

\* _remove_name with _remove_phonetic_lookups: False without the name row;
\* else the row's removal is prepared and `dmshard, dmashard = lookup_shard`
\* unpacks what the search returned, a TypeError for None that rolls the
\* removal back; else the located lookups are removed with the name row
remove_name ==
    /\ phon.calls <= MaxOps /\ phon.op # "none"
    /\ LET lookup_shard == find_phonetic_lookup_shards(phon.dm, phon.dma,
                                                       phon.alt, phon.loose)
           done == phon.name.exists /\ lookup_shard.ok
       IN phon' = [phon EXCEPT !.calls = @ + 1, !.op = "remove_name",
                               !.had = phon.name.exists,
                               !.found = lookup_shard,
                               !.add = {}, !.clear = {}, !.res = {},
                               !.name = IF done THEN NoRow ELSE @,
                               !.dm = IF done THEN NoLookup ELSE @,
                               !.dma = IF done /\ lookup_shard.dma # None
                                       THEN NoLookup ELSE @,
                               !.ret = IF done THEN "True"
                                       ELSE IF ~phon.name.exists THEN "False"
                                       ELSE "none",
                               !.exc = IF phon.name.exists /\ ~lookup_shard.ok
                                       THEN "TypeError" ELSE "none"]
    /\ UNCHANGED <<planVars, dataVars, faults, api, relop, mv, reg, srch, codec, prop>>

SpecPhon == InitNoFault /\ [][create_name \/ set_name_flags \/ remove_name]_vars

\* C39: the secondary lookup of a PHONETIC name is written, located,
\* flag-updated and removed only when dmalt is non-null and the ctx is
\* phonetic_loose; under a ctx that is not loose, set_name_flags and
\* remove_name on an existing name with a non-null dmalt locate the primary
\* lookup alone and succeed
C39_SecondaryOnlyWhenLoose ==
    /\ phon.dma.shard # None \/ phon.found.dma # None => phon.alt /\ phon.loose
    /\ phon.op \in {"set_name_flags", "remove_name"} /\ phon.had
       /\ phon.alt /\ ~phon.loose =>
        /\ phon.found.ok /\ phon.found.dma = None
        /\ phon.exc = "none"
        /\ phon.ret = IF phon.op = "remove_name" THEN "True" ELSE "flags"

(***************************************************************************)
(* Further properties of the two-shard plans                               *)
(***************************************************************************)
\* C32: no plan returns a value (False and null included) while the
\* transaction its TwoPhaseCommit handle prepared is still PREPARED: the
\* handle was committed or rolled back before the return
C32_NoPreparedAtReturn ==
    pc = "done" /\ exc = "none" => xact # "prepared"

\* C33: remove_node of a node and remove_alias of one of its aliases never
\* wait for each other: while the alias operation holds its prepared lookup
\* change and remove_node is inside its per-shard loop, at least one of the
\* two can take its next step
C33_NoMutualWait ==
    /\ client[1].pc = "mirror" /\ client[1].op = "remove_alias"
    /\ epc \in {"round", "final"}
    => ENABLED (Round \/ Final \/ ClientMirror(1))

\* C34: a handle of remove_node whose transaction was rolled back or
\* committed is final: neither rollback() nor commit() is called on it
\* afterwards
C34_FinalIsFinal ==
    \A i \in DOMAIN tpcs : ~tpcs[i].late

\* C35: dropping the removed lookups of a shard from the other candidate
\* shards' sets never reads the estate-map entry of a shard that has left
\* the map: remove_node does not end with KeyError
C35_NoKeyError ==
    epc \in {"rollback", "done"} => eres.exc # "KeyError"

\* C36: the timer of a timed operation is never bound to a connection the
\* operation has put back: while timer.conn names a connection, that
\* connection is borrowed
C36_TimerConnBorrowed ==
    timed /\ timerConn # None => pool[timerConn] < PoolSize

\* C37: in a timed operation the timer is bound to the connection on which
\* a statement of the operation is running, so that an expiry cancels it
C37_TimerBoundToInflight ==
    timed /\ inflight # None => timerConn = inflight

====
